---- MODULE Spec2Model ----
(***************************************************************************)
(* Model of the weryfikator service of cyber-weryfikator:                  *)
(*   - checks/unified.py   check_domain_security (request budget, verdicts)*)
(*   - crypto.py           Verifier.generate_token / Verifier.verify_token *)
(* Python strings are sequences of Unicode code points, bytes are          *)
(* sequences of 0..255.                                                    *)
(***************************************************************************)
EXTENDS Integers, Sequences, FiniteSets, TLC

(***************************************************************************)
(* Strings                                                                 *)
(***************************************************************************)
\* printable ASCII, code points 32..126 in order ("grave" stands for the
\* grave accent, code point 96)
ASCII ==
  <<
    " ","!","\"","#","$","%","&","'","(",")","*","+",",","-",".","/",
    "0","1","2","3","4","5","6","7","8","9",":",";","<","=",">","?",
    "@","A","B","C","D","E","F","G","H","I","J","K","L","M","N","O",
    "P","Q","R","S","T","U","V","W","X","Y","Z","[","\\","]","^","_",
    "grave","a","b","c","d","e","f","g","h","i","j","k","l","m","n","o",
    "p","q","r","s","t","u","v","w","x","y","z","{","|","}","~"
  >>

\* the code point of every printable ASCII character
CodePoints ==
  [ch \in {ASCII[i] : i \in 1..Len(ASCII)} |->
     31 + (CHOOSE i \in 1..Len(ASCII) : ASCII[i] = ch)]

\* ord(ch) of a printable ASCII character
Ord(ch) ==
  CodePoints[ch]

\* a string literal, written as a tuple of characters, as its code points
Str(t) ==
  [i \in 1..Len(t) |-> Ord(t[i])]

(***************************************************************************)
(* String literals of the sources and of the inputs                        *)
(***************************************************************************)
S_http_scheme ==
  Str(<<"h","t","t","p",":","/","/">>)

S_expired ==
  Str(<<"e","x","p","i","r","e","d">>)

S_https_scheme ==
  Str(<<"h","t","t","p","s",":","/","/">>)

S_b_pl ==
  Str(<<"b",".","p","l">>)

S_https_b_pl ==
  Str(<<"h","t","t","p","s",":","/","/","b",".","p","l">>)

S_Token_verification_error ==
  Str(<<"T","o","k","e","n"," ","v","e","r","i","f","i","c","a","t","i","o","n"," ","e","r","r","o","r",":"," ">>)

S_Invalid_timestamp_or_TTL ==
  Str(<<"I","n","v","a","l","i","d"," ","t","i","m","e","s","t","a","m","p"," ","o","r"," ","T","T","L">>)

S_comparing_strings_with_non_ASCII_characters ==
  Str(<<"c","o","m","p","a","r","i","n","g"," ","s","t","r","i","n","g","s"," ","w","i","t","h"," ","n","o","n","-","A","S","C","I","I"," ","c","h","a","r","a","c","t","e","r","s"," ","i","s"," ","n","o","t"," ","s","u","p","p","o","r","t","e","d">>)

S_Invalid_signature_token_may_be_forged ==
  Str(<<"I","n","v","a","l","i","d"," ","s","i","g","n","a","t","u","r","e"," ","(","t","o","k","e","n"," ","m","a","y"," ","b","e"," ","f","o","r","g","e","d"," ","o","r"," ","t","a","m","p","e","r","e","d",")">>)

S_Token_expired_TTL ==
  Str(<<"T","o","k","e","n"," ","e","x","p","i","r","e","d"," ","(","T","T","L",":"," ">>)

S_s_age ==
  Str(<<"s",","," ","a","g","e",":"," ">>)

S_s_paren ==
  Str(<<"s",")">>)

S_Token_verified_successfully ==
  Str(<<"T","o","k","e","n"," ","v","e","r","i","f","i","e","d"," ","s","u","c","c","e","s","s","f","u","l","l","y">>)

S_Invalid_token_format ==
  Str(<<"I","n","v","a","l","i","d"," ","t","o","k","e","n"," ","f","o","r","m","a","t">>)

S_30 ==
  Str(<<"3","0">>)

S_Token_expired ==
  Str(<<"T","o","k","e","n"," ","e","x","p","i","r","e","d">>)

(***************************************************************************)
(* String operations                                                       *)
(***************************************************************************)
\* str.lower() on the ASCII range
Lower(s) ==
  [i \in 1..Len(s) |-> IF s[i] >= 65 /\ s[i] <= 90 THEN s[i] + 32 ELSE s[i]]

\* s.startswith(p)
StartsWith(s, p) ==
  Len(p) <= Len(s) /\ SubSeq(s, 1, Len(p)) = p

\* p in s
Contains(s, p) ==
  \E i \in 0..(Len(s) - Len(p)) : SubSeq(s, i + 1, i + Len(p)) = p

\* str.strip(): whitespace removed at both ends
IsSpace(c) ==
  c \in {9, 10, 11, 12, 13, 28, 29, 30, 31, 32, 133, 160}

RECURSIVE LStrip(_)
LStrip(s) ==
  IF s # <<>> /\ IsSpace(Head(s)) THEN LStrip(Tail(s)) ELSE s

RECURSIVE RStrip(_)
RStrip(s) ==
  IF s # <<>> /\ IsSpace(s[Len(s)]) THEN RStrip(SubSeq(s, 1, Len(s) - 1)) ELSE s

Strip(s) ==
  RStrip(LStrip(s))

(***************************************************************************)
(* Bounds and input sets                                                   *)
(***************************************************************************)
\* longest redirect history of a response
MaxRedirects == 2

\* lines of checks/data/lista_gov_pl_z_www.txt (a blank line and a padded
\* line included)
DataFileLines ==
  << Str(<<"a",".","g","o","v",".","p","l">>), <<>>, Str(<<" ","w","w","w",".","a",".","g","o","v",".","p","l"," ">>) >>

\* domains passed to check_domain_security
Domains ==
  { Str(<<"a",".","g","o","v",".","p","l">>), Str(<<"A",".","g","o","v",".","p","l">>), Str(<<"w","w","w",".","a",".","g","o","v",".","p","l">>), Str(<<"x",".","p","l">>) }

\* exception classes session.get can raise
TLSClasses ==
  {"ClientConnectorCertificateError", "ClientConnectorSSLError", "ClientSSLError"}

OtherClasses ==
  {"ClientConnectorError", "TimeoutError", "ClientPayloadError"}

\* str(e) of the raised exception
ErrorTexts ==
  { Str(<<"[","S","S","L",":"," ","B","A","D","_","D","H","_","V","A","L","U","E","]"," ","b","a","d"," ","d","h"," ","v","a","l","u","e">>),
    Str(<<"d","h"," ","k","e","y"," ","t","o","o"," ","s","m","a","l","l">>),
    Str(<<"S","S","L","V","3","_","A","L","E","R","T","_","H","A","N","D","S","H","A","K","E","_","F","A","I","L","U","R","E">>),
    Str(<<"K","e","y"," ","E","x","c","h","a","n","g","e"," ","f","a","i","l","e","d">>),
    Str(<<"n","o"," ","s","h","a","r","e","d"," ","c","i","p","h","e","r">>),
    Str(<<"c","e","r","t","i","f","i","c","a","t","e"," ","h","a","s"," ","e","x","p","i","r","e","d">>),
    Str(<<"s","e","l","f"," ","s","i","g","n","e","d"," ","c","e","r","t","i","f","i","c","a","t","e">>),
    Str(<<"H","o","s","t","n","a","m","e"," ","m","i","s","m","a","t","c","h">>),
    Str(<<"C","a","n","n","o","t"," ","c","o","n","n","e","c","t"," ","t","o"," ","h","o","s","t">>),
    Str(<<"[","S","S","L",":"," ","C","E","R","T","I","F","I","C","A","T","E","_","V","E","R","I","F","Y","_","F","A","I","L","E","D","]"," ","c","e","r","t","i","f","i","c","a","t","e"," ","v","e","r","i","f","y"," ","f","a","i","l","e","d",":"," ","c","e","r","t","i","f","i","c","a","t","e"," ","h","a","s"," ","e","x","p","i","r","e","d">>),
    Str(<<"c","e","r","t","i","f","i","c","a","t","e"," ","v","e","r","i","f","y"," ","f","a","i","l","e","d",":"," ","s","e","l","f"," ","s","i","g","n","e","d"," ","c","e","r","t","i","f","i","c","a","t","e">>),
    Str(<<"c","e","r","t","i","f","i","c","a","t","e"," ","v","e","r","i","f","y"," ","f","a","i","l","e","d",":"," ","u","n","a","b","l","e"," ","t","o"," ","g","e","t"," ","l","o","c","a","l"," ","i","s","s","u","e","r"," ","c","e","r","t","i","f","i","c","a","t","e">>),
    Str(<<"h","a","n","d","s","h","a","k","e"," ","f","a","i","l","u","r","e",":"," ","d","h"," ","k","e","y"," ","t","o","o"," ","s","m","a","l","l">>),
    Str(<<"k","e","y"," ","e","x","c","h","a","n","g","e",":"," ","d","h"," ","s","m","a","l","l"," ","s","u","b","g","r","o","u","p">>),
    Str(<<"k","e","y"," ","e","x","c","h","a","n","g","e",":"," ","c","o","m","p","o","s","i","t","e"," ","m","o","d","u","l","u","s">>),
    <<>> }

Exceptions ==
  [cls : TLSClasses \cup OtherClasses, text : ErrorTexts]

NoError ==
  [cls |-> "None", text |-> <<>>]

NoResponse ==
  [url |-> <<>>, history |-> <<>>]

\* outcome of one session.get: a response or a raised exception
Succeeded(resp) ==
  [ok |-> TRUE, response |-> resp, exc |-> NoError]

Failed(e) ==
  [ok |-> FALSE, response |-> NoResponse, exc |-> e]

(***************************************************************************)
(* checks/base.py: results of a call                                       *)
(***************************************************************************)
NoResult ==
  [kind |-> "none", exc |-> "", message |-> <<>>]

ReturnTrue ==
  [kind |-> "return", exc |-> "", message |-> <<>>]

Raise(exc, message) ==
  [kind |-> "raise", exc |-> exc, message |-> message]

(***************************************************************************)
(* checks/domain.py                                                        *)
(***************************************************************************)
_GOV_DOMAINS ==
  {Strip(DataFileLines[i]) : i \in 1..Len(DataFileLines)} \ {<<>>}

\* variant: membership tested after case folding
verify_domain_caseless(d) ==
  IF Lower(d) \notin {Lower(g) : g \in _GOV_DOMAINS}
    THEN Raise("DomainError", Str(<<"D","o","m","a","i","n"," ","'">>) \o d \o Str(<<"'"," ","i","s"," ","n","o","t"," ","i","n"," ","t","h","e"," ","g","o","v","e","r","n","m","e","n","t"," ","d","o","m","a","i","n","s"," ","l","i","s","t">>))
    ELSE NoResult

\* NoResult stands for the normal return
verify_domain(d) ==
  IF d \notin _GOV_DOMAINS
    THEN Raise("DomainError", Str(<<"D","o","m","a","i","n"," ","'">>) \o d \o Str(<<"'"," ","i","s"," ","n","o","t"," ","i","n"," ","t","h","e"," ","g","o","v","e","r","n","m","e","n","t"," ","d","o","m","a","i","n","s"," ","l","i","s","t">>))
    ELSE NoResult

(***************************************************************************)
(* checks/http_errors.py                                                   *)
(***************************************************************************)
\* variant: only the final URL is inspected
_check_http_redirects_final_only(resp, original_url) ==
  IF StartsWith(resp.url, S_http_scheme)
    THEN Raise("HTTPError", Str(<<"S","i","t","e"," ","r","e","d","i","r","e","c","t","s"," ","t","o"," ","i","n","s","e","c","u","r","e"," ","H","T","T","P",":"," ">>) \o original_url \o Str(<<" ","-",">"," ">>) \o resp.url)
    ELSE NoResult

_check_http_redirects(resp, original_url) ==
  IF StartsWith(resp.url, S_http_scheme)
    THEN Raise("HTTPError", Str(<<"S","i","t","e"," ","r","e","d","i","r","e","c","t","s"," ","t","o"," ","i","n","s","e","c","u","r","e"," ","H","T","T","P",":"," ">>) \o original_url \o Str(<<" ","-",">"," ">>) \o resp.url)
    ELSE IF \E i \in 1..Len(resp.history) : StartsWith(resp.history[i], S_http_scheme)
      THEN LET first == CHOOSE i \in 1..Len(resp.history) :
                          /\ StartsWith(resp.history[i], S_http_scheme)
                          /\ \A j \in 1..(i - 1) : ~StartsWith(resp.history[j], S_http_scheme)
           IN Raise("HTTPError", Str(<<"R","e","d","i","r","e","c","t"," ","c","h","a","i","n"," ","c","o","n","t","a","i","n","s"," ","i","n","s","e","c","u","r","e"," ","H","T","T","P",":"," ">>) \o resp.history[first])
      ELSE NoResult

(***************************************************************************)
(* checks/ssl_errors.py                                                    *)
(***************************************************************************)
\* variant: the untrusted-root test comes first
_parse_ssl_error_untrusted_first(error, url) ==
  LET error_msg == Lower(error.text) IN
  IF Contains(error_msg, Str(<<"u","n","a","b","l","e"," ","t","o"," ","g","e","t"," ","l","o","c","a","l"," ","i","s","s","u","e","r">>)) \/ Contains(error_msg, Str(<<"c","e","r","t","i","f","i","c","a","t","e"," ","v","e","r","i","f","y"," ","f","a","i","l","e","d">>))
    THEN Raise("CertificateError", Str(<<"U","n","t","r","u","s","t","e","d"," ","r","o","o","t"," ","c","e","r","t","i","f","i","c","a","t","e"," ","f","o","r"," ">>) \o url)
  ELSE IF Contains(error_msg, Str(<<"c","e","r","t","i","f","i","c","a","t","e"," ","h","a","s"," ","e","x","p","i","r","e","d">>)) \/ Contains(error_msg, S_expired)
    THEN Raise("CertificateError", Str(<<"C","e","r","t","i","f","i","c","a","t","e"," ","h","a","s"," ","e","x","p","i","r","e","d"," ","f","o","r"," ">>) \o url)
  ELSE IF Contains(error_msg, Str(<<"h","o","s","t","n","a","m","e">>)) \/ Contains(error_msg, Str(<<"d","o","e","s"," ","n","o","t"," ","m","a","t","c","h">>))
    THEN Raise("CertificateError", Str(<<"C","e","r","t","i","f","i","c","a","t","e"," ","h","o","s","t","n","a","m","e"," ","m","i","s","m","a","t","c","h"," ","f","o","r"," ">>) \o url)
  ELSE IF Contains(error_msg, Str(<<"s","e","l","f"," ","s","i","g","n","e","d">>)) \/ Contains(error_msg, Str(<<"s","e","l","f","-","s","i","g","n","e","d">>))
    THEN Raise("CertificateError", Str(<<"S","e","l","f","-","s","i","g","n","e","d"," ","c","e","r","t","i","f","i","c","a","t","e"," ","d","e","t","e","c","t","e","d"," ","f","o","r"," ">>) \o url)
  ELSE Raise("CertificateError", Str(<<"C","e","r","t","i","f","i","c","a","t","e"," ","e","r","r","o","r"," ","f","o","r"," ">>) \o url \o Str(<<":"," ">>) \o error.text)

\* variant: only the spelling 'self-signed' is recognised
_parse_ssl_error_dash_only(error, url) ==
  LET error_msg == Lower(error.text) IN
  IF Contains(error_msg, Str(<<"c","e","r","t","i","f","i","c","a","t","e"," ","h","a","s"," ","e","x","p","i","r","e","d">>)) \/ Contains(error_msg, S_expired)
    THEN Raise("CertificateError", Str(<<"C","e","r","t","i","f","i","c","a","t","e"," ","h","a","s"," ","e","x","p","i","r","e","d"," ","f","o","r"," ">>) \o url)
  ELSE IF Contains(error_msg, Str(<<"h","o","s","t","n","a","m","e">>)) \/ Contains(error_msg, Str(<<"d","o","e","s"," ","n","o","t"," ","m","a","t","c","h">>))
    THEN Raise("CertificateError", Str(<<"C","e","r","t","i","f","i","c","a","t","e"," ","h","o","s","t","n","a","m","e"," ","m","i","s","m","a","t","c","h"," ","f","o","r"," ">>) \o url)
  ELSE IF Contains(error_msg, Str(<<"s","e","l","f","-","s","i","g","n","e","d">>))
    THEN Raise("CertificateError", Str(<<"S","e","l","f","-","s","i","g","n","e","d"," ","c","e","r","t","i","f","i","c","a","t","e"," ","d","e","t","e","c","t","e","d"," ","f","o","r"," ">>) \o url)
  ELSE IF Contains(error_msg, Str(<<"u","n","a","b","l","e"," ","t","o"," ","g","e","t"," ","l","o","c","a","l"," ","i","s","s","u","e","r">>)) \/ Contains(error_msg, Str(<<"c","e","r","t","i","f","i","c","a","t","e"," ","v","e","r","i","f","y"," ","f","a","i","l","e","d">>))
    THEN Raise("CertificateError", Str(<<"U","n","t","r","u","s","t","e","d"," ","r","o","o","t"," ","c","e","r","t","i","f","i","c","a","t","e"," ","f","o","r"," ">>) \o url)
  ELSE Raise("CertificateError", Str(<<"C","e","r","t","i","f","i","c","a","t","e"," ","e","r","r","o","r"," ","f","o","r"," ">>) \o url \o Str(<<":"," ">>) \o error.text)

_parse_ssl_error(error, url) ==
  LET error_msg == Lower(error.text) IN
  IF Contains(error_msg, Str(<<"c","e","r","t","i","f","i","c","a","t","e"," ","h","a","s"," ","e","x","p","i","r","e","d">>)) \/ Contains(error_msg, S_expired)
    THEN Raise("CertificateError", Str(<<"C","e","r","t","i","f","i","c","a","t","e"," ","h","a","s"," ","e","x","p","i","r","e","d"," ","f","o","r"," ">>) \o url)
  ELSE IF Contains(error_msg, Str(<<"h","o","s","t","n","a","m","e">>)) \/ Contains(error_msg, Str(<<"d","o","e","s"," ","n","o","t"," ","m","a","t","c","h">>))
    THEN Raise("CertificateError", Str(<<"C","e","r","t","i","f","i","c","a","t","e"," ","h","o","s","t","n","a","m","e"," ","m","i","s","m","a","t","c","h"," ","f","o","r"," ">>) \o url)
  ELSE IF Contains(error_msg, Str(<<"s","e","l","f"," ","s","i","g","n","e","d">>)) \/ Contains(error_msg, Str(<<"s","e","l","f","-","s","i","g","n","e","d">>))
    THEN Raise("CertificateError", Str(<<"S","e","l","f","-","s","i","g","n","e","d"," ","c","e","r","t","i","f","i","c","a","t","e"," ","d","e","t","e","c","t","e","d"," ","f","o","r"," ">>) \o url)
  ELSE IF Contains(error_msg, Str(<<"u","n","a","b","l","e"," ","t","o"," ","g","e","t"," ","l","o","c","a","l"," ","i","s","s","u","e","r">>)) \/ Contains(error_msg, Str(<<"c","e","r","t","i","f","i","c","a","t","e"," ","v","e","r","i","f","y"," ","f","a","i","l","e","d">>))
    THEN Raise("CertificateError", Str(<<"U","n","t","r","u","s","t","e","d"," ","r","o","o","t"," ","c","e","r","t","i","f","i","c","a","t","e"," ","f","o","r"," ">>) \o url)
  ELSE Raise("CertificateError", Str(<<"C","e","r","t","i","f","i","c","a","t","e"," ","e","r","r","o","r"," ","f","o","r"," ">>) \o url \o Str(<<":"," ">>) \o error.text)

(***************************************************************************)
(* checks/key_exchange_errors.py                                           *)
(***************************************************************************)
\* variant: the handshake test comes before the key size test
_parse_key_exchange_error_handshake_first(error, d) ==
  LET error_msg == Lower(error.text) IN
  IF Contains(error_msg, Str(<<"b","a","d","_","d","h","_","v","a","l","u","e">>)) \/ Contains(error_msg, Str(<<"b","a","d"," ","d","h"," ","v","a","l","u","e">>))
    THEN Raise("KeyExchangeError", Str(<<"D","o","m","a","i","n"," ">>) \o d \o Str(<<" ","u","s","e","s"," ","i","n","v","a","l","i","d"," ","o","r"," ","w","e","a","k"," ","D","i","f","f","i","e","-","H","e","l","l","m","a","n"," ","p","a","r","a","m","e","t","e","r","s"," ","(","b","a","d"," ","D","H"," ","v","a","l","u","e",")","."," ","T","h","i","s"," ","i","s"," ","v","u","l","n","e","r","a","b","l","e"," ","t","o"," ","a","t","t","a","c","k","s"," ","a","n","d"," ","r","e","j","e","c","t","e","d"," ","b","y"," ","m","o","d","e","r","n"," ","c","l","i","e","n","t","s",".">>))
  ELSE IF Contains(error_msg, Str(<<"h","a","n","d","s","h","a","k","e"," ","f","a","i","l","u","r","e">>)) \/ Contains(error_msg, Str(<<"h","a","n","d","s","h","a","k","e","_","f","a","i","l","u","r","e">>))
    THEN Raise("KeyExchangeError", Str(<<"D","o","m","a","i","n"," ">>) \o d \o Str(<<" ","S","S","L"," ","h","a","n","d","s","h","a","k","e"," ","f","a","i","l","e","d",","," ","p","o","s","s","i","b","l","y"," ","d","u","e"," ","t","o"," ","w","e","a","k"," ","k","e","y"," ","e","x","c","h","a","n","g","e"," ","p","a","r","a","m","e","t","e","r","s","."," ","E","r","r","o","r",":"," ">>) \o error.text)
  ELSE IF Contains(error_msg, Str(<<"d","h"," ","k","e","y"," ","t","o","o"," ","s","m","a","l","l">>)) \/ Contains(error_msg, Str(<<"d","h","_","k","e","y","_","t","o","o","_","s","m","a","l","l">>))
    THEN Raise("KeyExchangeError", Str(<<"D","o","m","a","i","n"," ">>) \o d \o Str(<<" ","u","s","e","s"," ","w","e","a","k"," ","D","i","f","f","i","e","-","H","e","l","l","m","a","n"," ","k","e","y"," ","e","x","c","h","a","n","g","e"," ","p","a","r","a","m","e","t","e","r","s"," ","(","k","e","y"," ","t","o","o"," ","s","m","a","l","l",")","."," ","T","h","i","s"," ","i","s"," ","v","u","l","n","e","r","a","b","l","e"," ","t","o"," ","a","t","t","a","c","k","s"," ","a","n","d"," ","r","e","j","e","c","t","e","d"," ","b","y"," ","m","o","d","e","r","n"," ","c","l","i","e","n","t","s",".">>))
  ELSE IF Contains(error_msg, Str(<<"s","m","a","l","l">>)) /\ Contains(error_msg, Str(<<"s","u","b","g","r","o","u","p">>))
    THEN Raise("KeyExchangeError", Str(<<"D","o","m","a","i","n"," ">>) \o d \o Str(<<" ","u","s","e","s"," ","D","i","f","f","i","e","-","H","e","l","l","m","a","n"," ","p","a","r","a","m","e","t","e","r","s"," ","v","u","l","n","e","r","a","b","l","e"," ","t","o"," ","s","m","a","l","l"," ","s","u","b","g","r","o","u","p"," ","a","t","t","a","c","k","s",".">>))
  ELSE IF Contains(error_msg, Str(<<"c","o","m","p","o","s","i","t","e">>))
    THEN Raise("KeyExchangeError", Str(<<"D","o","m","a","i","n"," ">>) \o d \o Str(<<" ","u","s","e","s"," ","D","i","f","f","i","e","-","H","e","l","l","m","a","n"," ","p","a","r","a","m","e","t","e","r","s"," ","w","i","t","h"," ","c","o","m","p","o","s","i","t","e"," ","m","o","d","u","l","u","s"," ","(","v","u","l","n","e","r","a","b","l","e",")",".">>))
  ELSE IF Contains(error_msg, Str(<<"s","s","l">>)) \/ Contains(error_msg, Str(<<"t","l","s">>)) \/ Contains(error_msg, Str(<<"c","i","p","h","e","r">>))
    THEN Raise("KeyExchangeError", Str(<<"D","o","m","a","i","n"," ">>) \o d \o Str(<<" ","h","a","s"," ","k","e","y"," ","e","x","c","h","a","n","g","e"," ","o","r"," ","c","i","p","h","e","r"," ","s","u","i","t","e"," ","i","s","s","u","e","s",":"," ">>) \o error.text)
  ELSE Raise("KeyExchangeError", Str(<<"D","o","m","a","i","n"," ">>) \o d \o Str(<<" ","h","a","s"," ","a"," ","k","e","y"," ","e","x","c","h","a","n","g","e"," ","r","e","l","a","t","e","d"," ","e","r","r","o","r",":"," ">>) \o error.text)

\* variant: an uncategorised error is raised again as it came
_parse_key_exchange_error_reraises(error, d) ==
  LET error_msg == Lower(error.text) IN
  IF Contains(error_msg, Str(<<"b","a","d","_","d","h","_","v","a","l","u","e">>)) \/ Contains(error_msg, Str(<<"b","a","d"," ","d","h"," ","v","a","l","u","e">>))
    THEN Raise("KeyExchangeError", Str(<<"D","o","m","a","i","n"," ">>) \o d \o Str(<<" ","u","s","e","s"," ","i","n","v","a","l","i","d"," ","o","r"," ","w","e","a","k"," ","D","i","f","f","i","e","-","H","e","l","l","m","a","n"," ","p","a","r","a","m","e","t","e","r","s"," ","(","b","a","d"," ","D","H"," ","v","a","l","u","e",")","."," ","T","h","i","s"," ","i","s"," ","v","u","l","n","e","r","a","b","l","e"," ","t","o"," ","a","t","t","a","c","k","s"," ","a","n","d"," ","r","e","j","e","c","t","e","d"," ","b","y"," ","m","o","d","e","r","n"," ","c","l","i","e","n","t","s",".">>))
  ELSE IF Contains(error_msg, Str(<<"d","h"," ","k","e","y"," ","t","o","o"," ","s","m","a","l","l">>)) \/ Contains(error_msg, Str(<<"d","h","_","k","e","y","_","t","o","o","_","s","m","a","l","l">>))
    THEN Raise("KeyExchangeError", Str(<<"D","o","m","a","i","n"," ">>) \o d \o Str(<<" ","u","s","e","s"," ","w","e","a","k"," ","D","i","f","f","i","e","-","H","e","l","l","m","a","n"," ","k","e","y"," ","e","x","c","h","a","n","g","e"," ","p","a","r","a","m","e","t","e","r","s"," ","(","k","e","y"," ","t","o","o"," ","s","m","a","l","l",")","."," ","T","h","i","s"," ","i","s"," ","v","u","l","n","e","r","a","b","l","e"," ","t","o"," ","a","t","t","a","c","k","s"," ","a","n","d"," ","r","e","j","e","c","t","e","d"," ","b","y"," ","m","o","d","e","r","n"," ","c","l","i","e","n","t","s",".">>))
  ELSE IF Contains(error_msg, Str(<<"h","a","n","d","s","h","a","k","e"," ","f","a","i","l","u","r","e">>)) \/ Contains(error_msg, Str(<<"h","a","n","d","s","h","a","k","e","_","f","a","i","l","u","r","e">>))
    THEN Raise("KeyExchangeError", Str(<<"D","o","m","a","i","n"," ">>) \o d \o Str(<<" ","S","S","L"," ","h","a","n","d","s","h","a","k","e"," ","f","a","i","l","e","d",","," ","p","o","s","s","i","b","l","y"," ","d","u","e"," ","t","o"," ","w","e","a","k"," ","k","e","y"," ","e","x","c","h","a","n","g","e"," ","p","a","r","a","m","e","t","e","r","s","."," ","E","r","r","o","r",":"," ">>) \o error.text)
  ELSE IF Contains(error_msg, Str(<<"s","m","a","l","l">>)) /\ Contains(error_msg, Str(<<"s","u","b","g","r","o","u","p">>))
    THEN Raise("KeyExchangeError", Str(<<"D","o","m","a","i","n"," ">>) \o d \o Str(<<" ","u","s","e","s"," ","D","i","f","f","i","e","-","H","e","l","l","m","a","n"," ","p","a","r","a","m","e","t","e","r","s"," ","v","u","l","n","e","r","a","b","l","e"," ","t","o"," ","s","m","a","l","l"," ","s","u","b","g","r","o","u","p"," ","a","t","t","a","c","k","s",".">>))
  ELSE IF Contains(error_msg, Str(<<"c","o","m","p","o","s","i","t","e">>))
    THEN Raise("KeyExchangeError", Str(<<"D","o","m","a","i","n"," ">>) \o d \o Str(<<" ","u","s","e","s"," ","D","i","f","f","i","e","-","H","e","l","l","m","a","n"," ","p","a","r","a","m","e","t","e","r","s"," ","w","i","t","h"," ","c","o","m","p","o","s","i","t","e"," ","m","o","d","u","l","u","s"," ","(","v","u","l","n","e","r","a","b","l","e",")",".">>))
  ELSE IF Contains(error_msg, Str(<<"s","s","l">>)) \/ Contains(error_msg, Str(<<"t","l","s">>)) \/ Contains(error_msg, Str(<<"c","i","p","h","e","r">>))
    THEN Raise("KeyExchangeError", Str(<<"D","o","m","a","i","n"," ">>) \o d \o Str(<<" ","h","a","s"," ","k","e","y"," ","e","x","c","h","a","n","g","e"," ","o","r"," ","c","i","p","h","e","r"," ","s","u","i","t","e"," ","i","s","s","u","e","s",":"," ">>) \o error.text)
  ELSE Raise(error.cls, error.text)

\* variant: an uncategorised error is not raised, the parser returns
_parse_key_exchange_error_returns(error, d) ==
  LET error_msg == Lower(error.text) IN
  IF Contains(error_msg, Str(<<"b","a","d","_","d","h","_","v","a","l","u","e">>)) \/ Contains(error_msg, Str(<<"b","a","d"," ","d","h"," ","v","a","l","u","e">>))
    THEN Raise("KeyExchangeError", Str(<<"D","o","m","a","i","n"," ">>) \o d \o Str(<<" ","u","s","e","s"," ","i","n","v","a","l","i","d"," ","o","r"," ","w","e","a","k"," ","D","i","f","f","i","e","-","H","e","l","l","m","a","n"," ","p","a","r","a","m","e","t","e","r","s"," ","(","b","a","d"," ","D","H"," ","v","a","l","u","e",")","."," ","T","h","i","s"," ","i","s"," ","v","u","l","n","e","r","a","b","l","e"," ","t","o"," ","a","t","t","a","c","k","s"," ","a","n","d"," ","r","e","j","e","c","t","e","d"," ","b","y"," ","m","o","d","e","r","n"," ","c","l","i","e","n","t","s",".">>))
  ELSE IF Contains(error_msg, Str(<<"d","h"," ","k","e","y"," ","t","o","o"," ","s","m","a","l","l">>)) \/ Contains(error_msg, Str(<<"d","h","_","k","e","y","_","t","o","o","_","s","m","a","l","l">>))
    THEN Raise("KeyExchangeError", Str(<<"D","o","m","a","i","n"," ">>) \o d \o Str(<<" ","u","s","e","s"," ","w","e","a","k"," ","D","i","f","f","i","e","-","H","e","l","l","m","a","n"," ","k","e","y"," ","e","x","c","h","a","n","g","e"," ","p","a","r","a","m","e","t","e","r","s"," ","(","k","e","y"," ","t","o","o"," ","s","m","a","l","l",")","."," ","T","h","i","s"," ","i","s"," ","v","u","l","n","e","r","a","b","l","e"," ","t","o"," ","a","t","t","a","c","k","s"," ","a","n","d"," ","r","e","j","e","c","t","e","d"," ","b","y"," ","m","o","d","e","r","n"," ","c","l","i","e","n","t","s",".">>))
  ELSE IF Contains(error_msg, Str(<<"h","a","n","d","s","h","a","k","e"," ","f","a","i","l","u","r","e">>)) \/ Contains(error_msg, Str(<<"h","a","n","d","s","h","a","k","e","_","f","a","i","l","u","r","e">>))
    THEN Raise("KeyExchangeError", Str(<<"D","o","m","a","i","n"," ">>) \o d \o Str(<<" ","S","S","L"," ","h","a","n","d","s","h","a","k","e"," ","f","a","i","l","e","d",","," ","p","o","s","s","i","b","l","y"," ","d","u","e"," ","t","o"," ","w","e","a","k"," ","k","e","y"," ","e","x","c","h","a","n","g","e"," ","p","a","r","a","m","e","t","e","r","s","."," ","E","r","r","o","r",":"," ">>) \o error.text)
  ELSE IF Contains(error_msg, Str(<<"s","m","a","l","l">>)) /\ Contains(error_msg, Str(<<"s","u","b","g","r","o","u","p">>))
    THEN Raise("KeyExchangeError", Str(<<"D","o","m","a","i","n"," ">>) \o d \o Str(<<" ","u","s","e","s"," ","D","i","f","f","i","e","-","H","e","l","l","m","a","n"," ","p","a","r","a","m","e","t","e","r","s"," ","v","u","l","n","e","r","a","b","l","e"," ","t","o"," ","s","m","a","l","l"," ","s","u","b","g","r","o","u","p"," ","a","t","t","a","c","k","s",".">>))
  ELSE IF Contains(error_msg, Str(<<"c","o","m","p","o","s","i","t","e">>))
    THEN Raise("KeyExchangeError", Str(<<"D","o","m","a","i","n"," ">>) \o d \o Str(<<" ","u","s","e","s"," ","D","i","f","f","i","e","-","H","e","l","l","m","a","n"," ","p","a","r","a","m","e","t","e","r","s"," ","w","i","t","h"," ","c","o","m","p","o","s","i","t","e"," ","m","o","d","u","l","u","s"," ","(","v","u","l","n","e","r","a","b","l","e",")",".">>))
  ELSE IF Contains(error_msg, Str(<<"s","s","l">>)) \/ Contains(error_msg, Str(<<"t","l","s">>)) \/ Contains(error_msg, Str(<<"c","i","p","h","e","r">>))
    THEN Raise("KeyExchangeError", Str(<<"D","o","m","a","i","n"," ">>) \o d \o Str(<<" ","h","a","s"," ","k","e","y"," ","e","x","c","h","a","n","g","e"," ","o","r"," ","c","i","p","h","e","r"," ","s","u","i","t","e"," ","i","s","s","u","e","s",":"," ">>) \o error.text)
  ELSE NoResult

_parse_key_exchange_error(error, d) ==
  LET error_msg == Lower(error.text) IN
  IF Contains(error_msg, Str(<<"b","a","d","_","d","h","_","v","a","l","u","e">>)) \/ Contains(error_msg, Str(<<"b","a","d"," ","d","h"," ","v","a","l","u","e">>))
    THEN Raise("KeyExchangeError", Str(<<"D","o","m","a","i","n"," ">>) \o d \o Str(<<" ","u","s","e","s"," ","i","n","v","a","l","i","d"," ","o","r"," ","w","e","a","k"," ","D","i","f","f","i","e","-","H","e","l","l","m","a","n"," ","p","a","r","a","m","e","t","e","r","s"," ","(","b","a","d"," ","D","H"," ","v","a","l","u","e",")","."," ","T","h","i","s"," ","i","s"," ","v","u","l","n","e","r","a","b","l","e"," ","t","o"," ","a","t","t","a","c","k","s"," ","a","n","d"," ","r","e","j","e","c","t","e","d"," ","b","y"," ","m","o","d","e","r","n"," ","c","l","i","e","n","t","s",".">>))
  ELSE IF Contains(error_msg, Str(<<"d","h"," ","k","e","y"," ","t","o","o"," ","s","m","a","l","l">>)) \/ Contains(error_msg, Str(<<"d","h","_","k","e","y","_","t","o","o","_","s","m","a","l","l">>))
    THEN Raise("KeyExchangeError", Str(<<"D","o","m","a","i","n"," ">>) \o d \o Str(<<" ","u","s","e","s"," ","w","e","a","k"," ","D","i","f","f","i","e","-","H","e","l","l","m","a","n"," ","k","e","y"," ","e","x","c","h","a","n","g","e"," ","p","a","r","a","m","e","t","e","r","s"," ","(","k","e","y"," ","t","o","o"," ","s","m","a","l","l",")","."," ","T","h","i","s"," ","i","s"," ","v","u","l","n","e","r","a","b","l","e"," ","t","o"," ","a","t","t","a","c","k","s"," ","a","n","d"," ","r","e","j","e","c","t","e","d"," ","b","y"," ","m","o","d","e","r","n"," ","c","l","i","e","n","t","s",".">>))
  ELSE IF Contains(error_msg, Str(<<"h","a","n","d","s","h","a","k","e"," ","f","a","i","l","u","r","e">>)) \/ Contains(error_msg, Str(<<"h","a","n","d","s","h","a","k","e","_","f","a","i","l","u","r","e">>))
    THEN Raise("KeyExchangeError", Str(<<"D","o","m","a","i","n"," ">>) \o d \o Str(<<" ","S","S","L"," ","h","a","n","d","s","h","a","k","e"," ","f","a","i","l","e","d",","," ","p","o","s","s","i","b","l","y"," ","d","u","e"," ","t","o"," ","w","e","a","k"," ","k","e","y"," ","e","x","c","h","a","n","g","e"," ","p","a","r","a","m","e","t","e","r","s","."," ","E","r","r","o","r",":"," ">>) \o error.text)
  ELSE IF Contains(error_msg, Str(<<"s","m","a","l","l">>)) /\ Contains(error_msg, Str(<<"s","u","b","g","r","o","u","p">>))
    THEN Raise("KeyExchangeError", Str(<<"D","o","m","a","i","n"," ">>) \o d \o Str(<<" ","u","s","e","s"," ","D","i","f","f","i","e","-","H","e","l","l","m","a","n"," ","p","a","r","a","m","e","t","e","r","s"," ","v","u","l","n","e","r","a","b","l","e"," ","t","o"," ","s","m","a","l","l"," ","s","u","b","g","r","o","u","p"," ","a","t","t","a","c","k","s",".">>))
  ELSE IF Contains(error_msg, Str(<<"c","o","m","p","o","s","i","t","e">>))
    THEN Raise("KeyExchangeError", Str(<<"D","o","m","a","i","n"," ">>) \o d \o Str(<<" ","u","s","e","s"," ","D","i","f","f","i","e","-","H","e","l","l","m","a","n"," ","p","a","r","a","m","e","t","e","r","s"," ","w","i","t","h"," ","c","o","m","p","o","s","i","t","e"," ","m","o","d","u","l","u","s"," ","(","v","u","l","n","e","r","a","b","l","e",")",".">>))
  ELSE IF Contains(error_msg, Str(<<"s","s","l">>)) \/ Contains(error_msg, Str(<<"t","l","s">>)) \/ Contains(error_msg, Str(<<"c","i","p","h","e","r">>))
    THEN Raise("KeyExchangeError", Str(<<"D","o","m","a","i","n"," ">>) \o d \o Str(<<" ","h","a","s"," ","k","e","y"," ","e","x","c","h","a","n","g","e"," ","o","r"," ","c","i","p","h","e","r"," ","s","u","i","t","e"," ","i","s","s","u","e","s",":"," ">>) \o error.text)
  ELSE Raise("KeyExchangeError", Str(<<"D","o","m","a","i","n"," ">>) \o d \o Str(<<" ","h","a","s"," ","a"," ","k","e","y"," ","e","x","c","h","a","n","g","e"," ","r","e","l","a","t","e","d"," ","e","r","r","o","r",":"," ">>) \o error.text)

(***************************************************************************)
(* checks/unified.py                                                       *)
(***************************************************************************)
key_exchange_indicators ==
  { Str(<<"b","a","d","_","d","h","_","v","a","l","u","e">>), Str(<<"b","a","d"," ","d","h"," ","v","a","l","u","e">>), Str(<<"d","h"," ","k","e","y"," ","t","o","o"," ","s","m","a","l","l">>), Str(<<"d","h","_","k","e","y","_","t","o","o","_","s","m","a","l","l">>),
    Str(<<"h","a","n","d","s","h","a","k","e"," ","f","a","i","l","u","r","e">>), Str(<<"h","a","n","d","s","h","a","k","e","_","f","a","i","l","u","r","e">>), Str(<<"n","o"," ","s","h","a","r","e","d"," ","c","i","p","h","e","r">>), Str(<<"c","i","p","h","e","r">>),
    Str(<<"k","e","y"," ","e","x","c","h","a","n","g","e">>) }

https_url(d) ==
  S_https_scheme \o d

http_url(d) ==
  S_http_scheme \o d

\* URLs a response of a request for domain d can carry
ResponseURLs(d) ==
  { https_url(d), http_url(d), https_url(d) \o Str(<<"/","?","n","e","x","t","=","h","t","t","p",":","/","/">>) \o d }

RECURSIVE SeqsUpTo(_, _)
SeqsUpTo(S, n) ==
  IF n = 0 THEN {<<>>}
  ELSE LET shorter == SeqsUpTo(S, n - 1)
       IN shorter \cup {Append(h, u) : h \in shorter, u \in S}

\* aiohttp.ClientResponse after redirects were followed: final url, history
Responses(d) ==
  [url : ResponseURLs(d), history : SeqsUpTo(ResponseURLs(d), MaxRedirects)]

\* variant: the except clause names only the certificate error class
IsTLSError_cert_only(e) ==
  e.cls = "ClientConnectorCertificateError"

\* the first except clause of check_domain_security
IsTLSError(e) ==
  e.cls \in TLSClasses

\* variant: every TLS error goes to the certificate parser
ClassifyTLSError_no_key_exchange(e, d) ==
  _parse_ssl_error(e, https_url(d))

\* body of that except clause
ClassifyTLSError(e, d) ==
  LET error_msg == Lower(e.text) IN
  IF \E indicator \in key_exchange_indicators : Contains(error_msg, indicator)
    THEN _parse_key_exchange_error(e, d)
    ELSE _parse_ssl_error(e, https_url(d))

\* a try block whose handler returned without raising falls through to the
\* final 'return True'
FallThrough(r) ==
  IF r.kind = "raise" THEN r ELSE ReturnTrue


(***************************************************************************)
(* Bytes, UTF-8, hex, base64, integers (crypto.py uses str.encode,         *)
(* bytes.decode, bytes.hex, base64.b64encode/b64decode, str() and int())   *)
(***************************************************************************)
\* UTF-8 bytes of one code point below 2048
Utf8Bytes(c) ==
  IF c < 128 THEN <<c>> ELSE <<192 + (c \div 64), 128 + (c % 64)>>

RECURSIVE Utf8EncodeUpTo(_, _)
Utf8EncodeUpTo(s, n) ==
  IF n = 0 THEN <<>> ELSE Utf8EncodeUpTo(s, n - 1) \o Utf8Bytes(s[n])

\* str.encode('utf-8')
Utf8Encode(s) ==
  Utf8EncodeUpTo(s, Len(s))

IsCont(b) ==
  b >= 128 /\ b <= 191

\* length of the well-formed UTF-8 sequence that starts at b[i], 0 when there
\* is none
Utf8SeqLen(b, i) ==
  LET have(n) == i + n - 1 <= Len(b) IN
  IF b[i] < 128 THEN 1
  ELSE IF b[i] >= 194 /\ b[i] <= 223
    THEN IF have(2) /\ IsCont(b[i + 1]) THEN 2 ELSE 0
  ELSE IF b[i] >= 224 /\ b[i] <= 239
    THEN IF /\ have(3) /\ IsCont(b[i + 1]) /\ IsCont(b[i + 2])
            /\ (b[i] = 224 => b[i + 1] >= 160)
            /\ (b[i] = 237 => b[i + 1] <= 159)
         THEN 3 ELSE 0
  ELSE IF b[i] >= 240 /\ b[i] <= 244
    THEN IF /\ have(4) /\ IsCont(b[i + 1]) /\ IsCont(b[i + 2]) /\ IsCont(b[i + 3])
            /\ (b[i] = 240 => b[i + 1] >= 144)
            /\ (b[i] = 244 => b[i + 1] <= 143)
         THEN 4 ELSE 0
  ELSE 0

Utf8CodePoint(b, i, n) ==
  IF n = 1 THEN b[i]
  ELSE IF n = 2 THEN (b[i] - 192) * 64 + (b[i + 1] - 128)
  ELSE IF n = 3 THEN (b[i] - 224) * 4096 + (b[i + 1] - 128) * 64 + (b[i + 2] - 128)
  ELSE (b[i] - 240) * 262144 + (b[i + 1] - 128) * 4096 + (b[i + 2] - 128) * 64
         + (b[i + 3] - 128)

RECURSIVE Utf8DecodeFrom(_, _, _)
Utf8DecodeFrom(b, i, acc) ==
  IF i > Len(b) \/ Len(acc) < 0 THEN [ok |-> TRUE, s |-> acc]
  ELSE LET n == Utf8SeqLen(b, i) IN
       IF n = 0 THEN [ok |-> FALSE, s |-> <<>>]
       ELSE Utf8DecodeFrom(b, i + n, Append(acc, Utf8CodePoint(b, i, n)))

\* bytes.decode('utf-8'): ok = FALSE stands for UnicodeDecodeError
Utf8Decode(b) ==
  Utf8DecodeFrom(b, 1, <<>>)

HexDigits ==
  Str(<<"0","1","2","3","4","5","6","7","8","9","a","b","c","d","e","f">>)

\* bytes.hex()
HexBytes(b) ==
  [i \in 1..(2 * Len(b)) |->
     IF i % 2 = 1 THEN HexDigits[(b[(i + 1) \div 2] \div 16) + 1]
                  ELSE HexDigits[(b[i \div 2] % 16) + 1]]

B64Alphabet ==
  Str(<<"A","B","C","D","E","F","G","H","I","J","K","L","M","N","O","P","Q","R","S","T","U","V","W","X","Y","Z","a","b","c","d","e","f","g","h","i","j","k","l","m","n","o","p","q","r","s","t","u","v","w","x","y","z","0","1","2","3","4","5","6","7","8","9","+","/">>)

B64Pad ==
  Ord("=")

ColonChar ==
  Ord(":")

UnderscoreChar ==
  Ord("_")

PlusChar ==
  Ord("+")

MinusChar ==
  Ord("-")

\* base64.b64encode
RECURSIVE B64Encode(_)
B64Encode(b) ==
  IF b = <<>> THEN <<>>
  ELSE IF Len(b) = 1
    THEN << B64Alphabet[(b[1] \div 4) + 1],
            B64Alphabet[((b[1] % 4) * 16) + 1],
            B64Pad, B64Pad >>
  ELSE IF Len(b) = 2
    THEN << B64Alphabet[(b[1] \div 4) + 1],
            B64Alphabet[((b[1] % 4) * 16 + (b[2] \div 16)) + 1],
            B64Alphabet[((b[2] % 16) * 4) + 1],
            B64Pad >>
  ELSE << B64Alphabet[(b[1] \div 4) + 1],
          B64Alphabet[((b[1] % 4) * 16 + (b[2] \div 16)) + 1],
          B64Alphabet[((b[2] % 16) * 4 + (b[3] \div 64)) + 1],
          B64Alphabet[(b[3] % 64) + 1] >> \o B64Encode(SubSeq(b, 4, Len(b)))

\* binascii's table_a2b_base64: the value of a base64 digit, 64 for a byte
\* outside the alphabet
table_a2b_base64 ==
  [c \in 0..255 |->
     IF \E i \in 1..64 : B64Alphabet[i] = c
       THEN (CHOOSE i \in 1..64 : B64Alphabet[i] = c) - 1
       ELSE 64]

B64Value(c) ==
  table_a2b_base64[c]

\* binascii.a2b_base64 without strict mode: bytes outside the alphabet are
\* skipped, a complete pad sequence ends the input, a dangling quad is an
\* error (ok = FALSE stands for binascii.Error)
RECURSIVE B64Scan(_, _, _, _, _, _)
B64Scan(a, i, quad_pos, leftchar, pads, out) ==
  IF i > Len(a) \/ quad_pos + leftchar + pads + Len(out) < 0
    THEN [ok |-> quad_pos = 0, bytes |-> out]
  ELSE IF a[i] = B64Pad
    THEN IF quad_pos >= 2 /\ quad_pos + pads + 1 >= 4
           THEN [ok |-> TRUE, bytes |-> out]
           ELSE B64Scan(a, i + 1, quad_pos, leftchar,
                        IF quad_pos >= 2 THEN pads + 1 ELSE pads, out)
  ELSE LET v == B64Value(a[i]) IN
       IF v >= 64 THEN B64Scan(a, i + 1, quad_pos, leftchar, pads, out)
       ELSE IF quad_pos = 0 THEN B64Scan(a, i + 1, 1, v, 0, out)
       ELSE IF quad_pos = 1
         THEN B64Scan(a, i + 1, 2, v % 16, 0, Append(out, leftchar * 4 + (v \div 16)))
       ELSE IF quad_pos = 2
         THEN B64Scan(a, i + 1, 3, v % 4, 0, Append(out, leftchar * 16 + (v \div 4)))
       ELSE B64Scan(a, i + 1, 0, 0, 0, Append(out, leftchar * 64 + v))

\* base64.b64decode
B64Decode(a) ==
  B64Scan(a, 1, 0, 0, 0, <<>>)

\* str(n) for an integer
RECURSIVE NatToStr(_)
NatToStr(n) ==
  IF n < 10 THEN <<48 + n>> ELSE Append(NatToStr(n \div 10), 48 + (n % 10))

IntToStr(n) ==
  IF n < 0 THEN <<MinusChar>> \o NatToStr(0 - n) ELSE NatToStr(n)

IsDigit(c) ==
  c >= 48 /\ c <= 57

RECURSIVE DigitsValue(_, _)
DigitsValue(s, acc) ==
  IF s = <<>> THEN acc
  ELSE IF IsDigit(Head(s)) THEN DigitsValue(Tail(s), acc * 10 + (Head(s) - 48))
  ELSE DigitsValue(Tail(s), acc)

\* whitespace int() skips: C isspace, and the non-ASCII Unicode spaces
IsIntSpace(c) ==
  c \in {9, 10, 11, 12, 13, 32, 133, 160}

RECURSIVE IntLStrip(_)
IntLStrip(s) ==
  IF s # <<>> /\ IsIntSpace(Head(s)) THEN IntLStrip(Tail(s)) ELSE s

RECURSIVE IntRStrip(_)
IntRStrip(s) ==
  IF s # <<>> /\ IsIntSpace(s[Len(s)]) THEN IntRStrip(SubSeq(s, 1, Len(s) - 1)) ELSE s

IntStrip(s) ==
  IntRStrip(IntLStrip(s))

\* int(s): surrounding whitespace, one sign, decimal digits with single
\* underscores between them; ok = FALSE stands for ValueError
ParseInt(s) ==
  LET body == IntStrip(s)
      signed == body # <<>> /\ body[1] \in {PlusChar, MinusChar}
      digits == IF signed THEN Tail(body) ELSE body
      wellFormed ==
        /\ digits # <<>>
        /\ \A i \in 1..Len(digits) : IsDigit(digits[i]) \/ digits[i] = UnderscoreChar
        /\ IsDigit(digits[1]) /\ IsDigit(digits[Len(digits)])
        /\ \A i \in 1..(Len(digits) - 1) : ~(digits[i] = UnderscoreChar /\ digits[i + 1] = UnderscoreChar)
  IN IF ~wellFormed THEN [ok |-> FALSE, value |-> 0]
     ELSE [ok |-> TRUE,
           value |-> IF signed /\ body[1] = MinusChar
                       THEN 0 - DigitsValue(digits, 0)
                       ELSE DigitsValue(digits, 0)]

\* position of the k-th separator of s, Len(s) + 1 past the last one, 0 for k = 0
SepPos(s, sep, k) ==
  LET seps == {i \in 1..Len(s) : s[i] = sep} IN
  IF k = 0 THEN 0
  ELSE IF k > Cardinality(seps) THEN Len(s) + 1
  ELSE CHOOSE i \in seps : Cardinality({j \in seps : j < i}) = k - 1

\* s.split(sep) for a one-character separator
Split(s, sep) ==
  [k \in 1..(Cardinality({i \in 1..Len(s) : s[i] = sep}) + 1) |->
     SubSeq(s, SepPos(s, sep, k - 1) + 1, SepPos(s, sep, k) - 1)]

Colon ==
  <<ColonChar>>

(***************************************************************************)
(* crypto.py: Verifier                                                     *)
(***************************************************************************)
\* first second of the clock
StartTime == 98

\* seconds the clock advances
MaxTicks == 3

\* values secrets.token_bytes returns (one byte stands for the 16)
Salts ==
  { <<10>>, <<243>> }

\* ttl_seconds of a request (ge=1)
TTLs ==
  {1, 2}

\* domain of a request
DomainInputs ==
  { S_b_pl, S_https_b_pl, Str(<<"H","t","t","P",":","/","/","C",".","p","l","/">>), Str(<<"b",".","p","l",":","8">>) }

PEPPER ==
  Str(<<"h","a","r","d","c","o","d","e","d","_","p","e","p","p","e","r","_","v","a","l","u","e","_","n","e","v","e","r","_","l","e","a","v","e","_","s","e","r","v","e","r","_","a","f","8","d","9","2","b","1","c","3","e","4","f","5","6","7">>)

master_secret ==
  Str(<<"s","3","c","r","e","t">>)

\* secret of somebody who is not the Verifier
wrong_secret ==
  Str(<<"w","r","o","n","g","_","s","e","c","r","e","t">>)

signing_key ==
  master_secret \o PEPPER

\* keys a digest is ever computed with
Keys ==
  {signing_key, wrong_secret \o PEPPER, master_secret, wrong_secret}

\* Stand-in for SHA-256: two 16-bit polynomial lanes over the bytes of key and
\* message; a deterministic function of (key, message), rendered as
\* lower-case hex like hexdigest().
DigestMod1 == 65521

DigestMod2 == 65519

RECURSIVE Lane(_, _, _, _, _)
Lane(b, i, h, mult, mod) ==
  IF i > Len(b) \/ h < 0 THEN h
  ELSE Lane(b, i + 1, (h * mult + b[i] + 1) % mod, mult, mod)

\* digest state after the key was absorbed
KeyState ==
  [k \in Keys |-> <<Lane(k, 1, 1, 257, DigestMod1), Lane(k, 1, 7, 263, DigestMod2)>>]

Hex16(n) ==
  HexBytes(<<n \div 256, n % 256>>)

\* hmac.new(key, message, hashlib.sha256).hexdigest()
HmacHexDigest(key, message) ==
  Hex16(Lane(message, 1, KeyState[key][1], 257, DigestMod1))
    \o Hex16(Lane(message, 1, KeyState[key][2], 263, DigestMod2))

\* variant: the prefix is matched without re.IGNORECASE
_normalize_domain_case_sensitive(d) ==
  IF StartsWith(d, S_https_scheme) THEN SubSeq(d, 9, Len(d))
  ELSE IF StartsWith(d, S_http_scheme) THEN SubSeq(d, 8, Len(d))
  ELSE d

\* re.sub(r'^https?://', '', domain, flags=re.IGNORECASE)
_normalize_domain(d) ==
  IF StartsWith(Lower(d), S_https_scheme) THEN SubSeq(d, 9, Len(d))
  ELSE IF StartsWith(Lower(d), S_http_scheme) THEN SubSeq(d, 8, Len(d))
  ELSE d

\* variant: the salt is left out of the signed message
SignedMessage_without_salt(d, timestamp_str, ttl_str, salt_hex) ==
  Utf8Encode(d \o Colon \o timestamp_str \o Colon \o ttl_str)

\* variant: the TTL is left out of the signed message
SignedMessage_without_ttl(d, timestamp_str, ttl_str, salt_hex) ==
  Utf8Encode(d \o Colon \o timestamp_str \o Colon \o salt_hex)

\* the message that is signed: domain:timestamp:ttl:salt
SignedMessage(d, timestamp_str, ttl_str, salt_hex) ==
  Utf8Encode(d \o Colon \o timestamp_str \o Colon \o ttl_str \o Colon \o salt_hex)

\* str() of the binascii.Error that a2b_base64 raises on a dangling quad
B64ErrorText(a) ==
  LET n == Cardinality({i \in 1..Len(a) : B64Value(a[i]) < 64}) IN
  IF n % 4 = 1
    THEN Str(<<"I","n","v","a","l","i","d"," ","b","a","s","e","6","4","-","e","n","c","o","d","e","d"," ","s","t","r","i","n","g",":"," ","n","u","m","b","e","r"," ","o","f"," ","d","a","t","a"," ","c","h","a","r","a","c","t","e","r","s"," ","(">>) \o IntToStr(n)
           \o Str(<<")"," ","c","a","n","n","o","t"," ","b","e"," ","1"," ","m","o","r","e"," ","t","h","a","n"," ","a"," ","m","u","l","t","i","p","l","e"," ","o","f"," ","4">>)
    ELSE Str(<<"I","n","c","o","r","r","e","c","t"," ","p","a","d","d","i","n","g">>)

\* Verifier.generate_token, with the salt drawn and the clock read
generate_token(d, ttl_seconds, salt, now) ==
  LET normalized_domain == _normalize_domain(d)
      salt_hex == HexBytes(salt)
      timestamp == IntToStr(now)
      ttl == IntToStr(ttl_seconds)
      message == SignedMessage(normalized_domain, timestamp, ttl, salt_hex)
      signature == HmacHexDigest(signing_key, message)
      token_data == normalized_domain \o Colon \o timestamp \o Colon \o ttl
                      \o Colon \o salt_hex \o Colon \o signature
  IN B64Encode(Utf8Encode(token_data))

Verdict(valid, reason, d) ==
  [valid |-> valid, reason |-> reason, domain |-> d]

\* the except Exception clause of verify_token
VerificationError(text) ==
  Verdict(FALSE, S_Token_verification_error \o text, <<>>)

\* hmac.compare_digest on two str: TypeError unless both are ASCII
IsASCII(s) ==
  \A i \in 1..Len(s) : s[i] < 128

\* current_time > timestamp + ttl
IsExpired(now, timestamp, ttl) ==
  now > timestamp + ttl

\* hmac.compare_digest on two ASCII str
compare_digest(a, b) ==
  a = b

\* variant: the signature is compared before the expiry is looked at
VerifyFields_signature_first(parts, now) ==
  LET timestamp == ParseInt(parts[2])
      ttl == ParseInt(parts[3])
      expected_signature ==
        HmacHexDigest(signing_key, SignedMessage(parts[1], parts[2], parts[3], parts[4]))
  IN
  IF ~timestamp.ok \/ ~ttl.ok THEN Verdict(FALSE, S_Invalid_timestamp_or_TTL, <<>>)
  ELSE IF ~IsASCII(parts[5])
    THEN VerificationError(S_comparing_strings_with_non_ASCII_characters)
  ELSE IF ~compare_digest(expected_signature, parts[5])
    THEN Verdict(FALSE, S_Invalid_signature_token_may_be_forged, <<>>)
  ELSE IF IsExpired(now, timestamp.value, ttl.value)
    THEN Verdict(FALSE,
                 S_Token_expired_TTL \o IntToStr(ttl.value) \o S_s_age
                   \o IntToStr(now - timestamp.value) \o S_s_paren,
                 parts[1])
  ELSE Verdict(TRUE, S_Token_verified_successfully, parts[1])

\* variant: the signature mismatch answers with the domain of the token
VerifyFields_leaks_domain(parts, now) ==
  LET timestamp == ParseInt(parts[2])
      ttl == ParseInt(parts[3])
      expected_signature ==
        HmacHexDigest(signing_key, SignedMessage(parts[1], parts[2], parts[3], parts[4]))
  IN
  IF ~timestamp.ok \/ ~ttl.ok THEN Verdict(FALSE, S_Invalid_timestamp_or_TTL, <<>>)
  ELSE IF IsExpired(now, timestamp.value, ttl.value)
    THEN Verdict(FALSE,
                 S_Token_expired_TTL \o IntToStr(ttl.value) \o S_s_age
                   \o IntToStr(now - timestamp.value) \o S_s_paren,
                 parts[1])
  ELSE IF ~IsASCII(parts[5])
    THEN VerificationError(S_comparing_strings_with_non_ASCII_characters)
  ELSE IF ~compare_digest(expected_signature, parts[5])
    THEN Verdict(FALSE, S_Invalid_signature_token_may_be_forged, parts[1])
  ELSE Verdict(TRUE, S_Token_verified_successfully, parts[1])

\* variant: a timestamp or TTL that is no integer is reported as a format error
VerifyFields_bad_int_as_format(parts, now) ==
  IF ~ParseInt(parts[2]).ok \/ ~ParseInt(parts[3]).ok
    THEN Verdict(FALSE, S_Invalid_token_format, <<>>)
    ELSE VerifyFields_signature_first(parts, now)

\* verify_token once the token data is split into its 5 fields
VerifyFields(parts, now) ==
  LET token_domain == parts[1]
      timestamp_str == parts[2]
      ttl_str == parts[3]
      salt_hex == parts[4]
      provided_signature == parts[5]
      timestamp == ParseInt(timestamp_str)
      ttl == ParseInt(ttl_str)
  IN
  IF ~timestamp.ok \/ ~ttl.ok THEN Verdict(FALSE, S_Invalid_timestamp_or_TTL, <<>>)
  ELSE IF IsExpired(now, timestamp.value, ttl.value)
    THEN Verdict(FALSE,
                 S_Token_expired_TTL \o IntToStr(ttl.value) \o S_s_age
                   \o IntToStr(now - timestamp.value) \o S_s_paren,
                 token_domain)
  ELSE
  LET expected_signature ==
        HmacHexDigest(signing_key, SignedMessage(token_domain, timestamp_str, ttl_str, salt_hex))
  IN
  IF ~IsASCII(provided_signature)
    THEN VerificationError(S_comparing_strings_with_non_ASCII_characters)
  ELSE IF ~compare_digest(expected_signature, provided_signature)
    THEN Verdict(FALSE, S_Invalid_signature_token_may_be_forged, <<>>)
  ELSE Verdict(TRUE, S_Token_verified_successfully, token_domain)

\* Verifier.verify_token, with the clock read
verify_token(token, now) ==
  LET decoded == B64Decode(Utf8Encode(token)) IN
  IF ~decoded.ok THEN VerificationError(B64ErrorText(Utf8Encode(token)))
  ELSE
  LET token_data == Utf8Decode(decoded.bytes) IN
  \* the text goes on with the byte, its position and the cause
  IF ~token_data.ok THEN VerificationError(Str(<<"'","u","t","f","-","8","'"," ","c","o","d","e","c"," ","c","a","n","'","t"," ","d","e","c","o","d","e"," ","b","y","t","e">>))
  ELSE
  LET parts == Split(token_data.s, ColonChar) IN
  IF Len(parts) # 5 THEN Verdict(FALSE, S_Invalid_token_format, <<>>)
  ELSE VerifyFields(parts, now)
(***************************************************************************)
(* State                                                                   *)
(***************************************************************************)
VARIABLES
  pc,                     \* position of the check_domain_security coroutine
  domain,                 \* its argument
  skip_domain_whitelist,  \* its argument
  requests,               \* URLs passed to session.get, in order
  https_error,            \* its local variable
  result,                 \* how the call ended
  outcomes,               \* what each session.get did, in order
  current_time,           \* UTC clock, whole seconds
  issued,                 \* the generate_token call that was served last
  response,               \* the Verifier's response on its way to the client
  error,                  \* the exception handed to a parser that is called directly
  handshake,               \* what the TLS handshake of _get_cert_chain_sync did
  sock,                   \* the socket of _get_cert_chain_sync: none, open or closed
  connection,             \* whether its local name connection is bound
  fetch_timeout,          \* its argument timeout
  called_at,              \* the time it was called
  start_time,             \* its local variable
  wait_until,              \* the time the pending select gives up
  ep_pc,                  \* position of the generate_token endpoint of weryfikator
  enable_domain_checks,   \* settings.enable_domain_checks
  http_reply,              \* what the endpoint answered
  tasks,                  \* the check_one coroutines of check_key_exchange_group, in list order
  results,                 \* the dictionary it returned
  task_pc,                \* position of the update_secret_file task of the bank
  lifespan_pc,            \* position of the lifespan of the bank
  bank_connector,         \* the connector of the bank: none, open or closed
  secret_file,            \* content of the secret file
  wake_at,                \* the time the pending asyncio.sleep ends
  attempts,               \* attempts started so far
  cancel_requested,       \* task.cancel() was called and not yet delivered
  last_outcome,            \* how the last attempt ended
  conn_pc,                \* position of the verify_token endpoint of mObywatel and its connector call
  attempt_number,         \* attempts of the current connector.verify_token call
  raised,                 \* what each attempt raised, in order
  conn_result,            \* how connector.verify_token ended
  mob_reply,               \* what the endpoint answered
  _connector_instance,    \* the module global: index into connectors, or NoConnector for None
  connectors,             \* every WeryfikatorConnector created so far, in order of creation
  close_pc,               \* per close_connector coroutine: the connector whose close() it awaits
  calls                   \* the calls that returned, in order

checkVars == <<pc, domain, skip_domain_whitelist, requests, https_error, result, outcomes>>

tokenVars == <<current_time, issued, response>>

parserVars == <<error>>

caVars == <<handshake>>

fetchVars == <<sock, connection, fetch_timeout, called_at, start_time, wait_until>>

endpointVars == <<ep_pc, enable_domain_checks, http_reply>>

groupVars == <<tasks, results>>

bankVars == <<task_pc, lifespan_pc, bank_connector, secret_file, wake_at, attempts, cancel_requested, last_outcome>>

retryVars == <<conn_pc, attempt_number, raised, conn_result, mob_reply>>

\* _connector_instance is None
NoConnector == 0

\* close_connector coroutines that may be in flight together
CloseCoroutines == {1, 2}

connectorVars == <<_connector_instance, connectors, close_pc, calls>>

vars == <<pc, domain, skip_domain_whitelist, requests, https_error, result, outcomes,
          current_time, issued, response, error, handshake,
          sock, connection, fetch_timeout, called_at, start_time, wait_until,
          ep_pc, enable_domain_checks, http_reply,
          tasks, results,
          task_pc, lifespan_pc, bank_connector, secret_file, wake_at, attempts, cancel_requested, last_outcome,
          conn_pc, attempt_number, raised, conn_result, mob_reply,
          _connector_instance, connectors, close_pc, calls>>

NoToken ==
  [token |-> <<>>, domain |-> <<>>, ttl_seconds |-> 0, at |-> 0]

NoReply ==
  [op |-> "none", how |-> "", field |-> 0, token |-> <<>>, at |-> 0,
   valid |-> FALSE, reason |-> <<>>, domain |-> <<>>]


NoHandshake ==
  [error |-> NoError, chain |-> <<>>]

NoHttpReply ==
  [status_code |-> 0, detail |-> <<>>]

\* no dictionary yet
NoResults ==
  [d \in {} |-> NoResult]

NoOutcome ==
  [kind |-> "none", token |-> <<>>]
Init ==
  /\ pc = "idle"
  /\ domain = <<>>
  /\ skip_domain_whitelist = FALSE
  /\ requests = <<>>
  /\ https_error = NoError
  /\ result = NoResult
  /\ outcomes = <<>>
  /\ current_time = StartTime
  /\ issued = NoToken
  /\ response = NoReply
  /\ error = NoError
  /\ handshake = NoHandshake
  /\ sock = "none"
  /\ connection = FALSE
  /\ fetch_timeout = 0
  /\ called_at = 0
  /\ start_time = 0
  /\ wait_until = 0
  /\ ep_pc = "idle"
  /\ enable_domain_checks = FALSE
  /\ http_reply = NoHttpReply
  /\ tasks = <<>>
  /\ results = NoResults
  /\ task_pc = "none"
  /\ lifespan_pc = "startup"
  /\ bank_connector = "none"
  /\ secret_file = <<>>
  /\ wake_at = 0
  /\ attempts = 0
  /\ cancel_requested = FALSE
  /\ last_outcome = NoOutcome
  /\ conn_pc = "idle"
  /\ attempt_number = 0
  /\ raised = <<>>
  /\ conn_result = NoOutcome
  /\ mob_reply = NoHttpReply
  /\ _connector_instance = NoConnector
  /\ connectors = <<>>
  /\ close_pc = [c \in CloseCoroutines |-> NoConnector]
  /\ calls = <<>>

\* check_domain_security is called: whitelist check, then the HTTPS GET is issued
Call(d, skip) ==
  /\ pc = "idle"
  /\ domain' = d
  /\ skip_domain_whitelist' = skip
  /\ https_error' = NoError
  /\ IF ~skip /\ verify_domain(d).kind = "raise"
       THEN /\ result' = verify_domain(d)
            /\ requests' = requests
            /\ pc' = "done"
            /\ outcomes' = outcomes
       ELSE /\ requests' = Append(requests, https_url(d))
            /\ result' = result
            /\ pc' = "await_https"
            /\ outcomes' = outcomes

\* the HTTPS GET and response.read() succeed
HttpsSucceeds(resp) ==
  /\ pc = "await_https"
  /\ result' = FallThrough(_check_http_redirects(resp, https_url(domain)))
  /\ pc' = "done"
  /\ outcomes' = Append(outcomes, Succeeded(resp))
  /\ UNCHANGED <<domain, skip_domain_whitelist, requests, https_error>>

\* the HTTPS GET raises e
HttpsRaises(e) ==
  /\ pc = "await_https"
  /\ outcomes' = Append(outcomes, Failed(e))
  /\ IF IsTLSError(e)
       THEN /\ result' = FallThrough(ClassifyTLSError(e, domain))
            /\ pc' = "done"
            /\ UNCHANGED <<requests, https_error>>
       ELSE /\ https_error' = e
            /\ requests' = Append(requests, http_url(domain))
            /\ pc' = "await_http"
            /\ result' = result
  /\ UNCHANGED <<domain, skip_domain_whitelist>>

\* the HTTP fallback GET succeeds
HttpSucceeds ==
  /\ pc = "await_http"
  /\ outcomes' = Append(outcomes, Succeeded([url |-> http_url(domain), history |-> <<>>]))
  /\ result' = Raise("HTTPError",
                     Str(<<"D","o","m","a","i","n"," ">>) \o domain \o Str(<<" ","o","n","l","y"," ","a","c","c","e","p","t","s"," ","i","n","s","e","c","u","r","e"," ","H","T","T","P"," ","c","o","n","n","e","c","t","i","o","n","s","."," ","H","T","T","P","S"," ","f","a","i","l","e","d"," ","w","i","t","h",":"," ">>) \o https_error.text)
  /\ pc' = "done"
  /\ UNCHANGED <<domain, skip_domain_whitelist, requests, https_error>>

\* variant: a failed fallback is reported like a successful one
HttpRaises_as_http_only(http_error) ==
  /\ pc = "await_http"
  /\ outcomes' = Append(outcomes, Failed(http_error))
  /\ result' = Raise("HTTPError",
                     Str(<<"D","o","m","a","i","n"," ">>) \o domain \o Str(<<" ","o","n","l","y"," ","a","c","c","e","p","t","s"," ","i","n","s","e","c","u","r","e"," ","H","T","T","P"," ","c","o","n","n","e","c","t","i","o","n","s","."," ","H","T","T","P","S"," ","f","a","i","l","e","d"," ","w","i","t","h",":"," ">>) \o https_error.text)
  /\ pc' = "done"
  /\ UNCHANGED <<domain, skip_domain_whitelist, requests, https_error>>

\* the HTTP fallback GET raises http_error
HttpRaises(http_error) ==
  /\ pc = "await_http"
  /\ outcomes' = Append(outcomes, Failed(http_error))
  /\ result' = Raise("HTTPError",
                     Str(<<"D","o","m","a","i","n"," ">>) \o domain \o Str(<<" ","i","s"," ","u","n","r","e","a","c","h","a","b","l","e","."," ","H","T","T","P","S"," ","e","r","r","o","r",":"," ">>) \o https_error.text
                       \o Str(<<"."," ","H","T","T","P"," ","e","r","r","o","r",":"," ">>) \o http_error.text)
  /\ pc' = "done"
  /\ UNCHANGED <<domain, skip_domain_whitelist, requests, https_error>>

Next ==
  \/ \E d \in Domains, skip \in BOOLEAN : Call(d, skip) /\ UNCHANGED <<tokenVars, parserVars, caVars, fetchVars, endpointVars, groupVars, bankVars, retryVars, connectorVars>>
  \/ \E r \in Responses(domain) : HttpsSucceeds(r) /\ UNCHANGED <<tokenVars, parserVars, caVars, fetchVars, endpointVars, groupVars, bankVars, retryVars, connectorVars>>
  \/ \E e \in Exceptions : HttpsRaises(e) /\ UNCHANGED <<tokenVars, parserVars, caVars, fetchVars, endpointVars, groupVars, bankVars, retryVars, connectorVars>>
  \/ HttpSucceeds /\ UNCHANGED <<tokenVars, parserVars, caVars, fetchVars, endpointVars, groupVars, bankVars, retryVars, connectorVars>>
  \/ \E e \in Exceptions : HttpRaises(e) /\ UNCHANGED <<tokenVars, parserVars, caVars, fetchVars, endpointVars, groupVars, bankVars, retryVars, connectorVars>>

Spec == Init /\ [][Next]_vars

\* _parse_ssl_error(error, url) is called with the HTTPS URL of d
ParseSslError(e, d) ==
  /\ pc = "idle"
  /\ error' = e
  /\ domain' = d
  /\ result' = _parse_ssl_error(e, https_url(d))
  /\ pc' = "ssl_parsed"
  /\ UNCHANGED <<skip_domain_whitelist, requests, https_error, outcomes>>

\* _parse_key_exchange_error(error, domain) is called
ParseKeyExchangeError(e, d) ==
  /\ pc = "idle"
  /\ error' = e
  /\ domain' = d
  /\ result' = _parse_key_exchange_error(e, d)
  /\ pc' = "kx_parsed"
  /\ UNCHANGED <<skip_domain_whitelist, requests, https_error, outcomes>>

\* check_domain_security together with direct calls of the two parsers
NextClassify ==
  \/ Next
  \/ \E e \in Exceptions, d \in Domains : ParseSslError(e, d) /\ UNCHANGED <<tokenVars, caVars, fetchVars, endpointVars, groupVars, bankVars, retryVars, connectorVars>>
  \/ \E e \in Exceptions, d \in Domains : ParseKeyExchangeError(e, d) /\ UNCHANGED <<tokenVars, caVars, fetchVars, endpointVars, groupVars, bankVars, retryVars, connectorVars>>

SpecClassify == Init /\ [][NextClassify]_vars

(***************************************************************************)
(* check_weak_key_exchange                                                 *)
(***************************************************************************)
check_weak_key_exchange_indicators ==
  { Str(<<"b","a","d","_","d","h","_","v","a","l","u","e">>), Str(<<"b","a","d"," ","d","h"," ","v","a","l","u","e">>), Str(<<"d","h"," ","k","e","y"," ","t","o","o"," ","s","m","a","l","l">>), Str(<<"d","h","_","k","e","y","_","t","o","o","_","s","m","a","l","l">>),
    Str(<<"h","a","n","d","s","h","a","k","e"," ","f","a","i","l","u","r","e">>), Str(<<"h","a","n","d","s","h","a","k","e","_","f","a","i","l","u","r","e">>), Str(<<"n","o"," ","s","h","a","r","e","d"," ","c","i","p","h","e","r">>), Str(<<"c","i","p","h","e","r">>),
    Str(<<"k","e","y"," ","e","x","c","h","a","n","g","e">>) }

\* the bare 'raise' of an except clause
Reraise(e) ==
  Raise(e.cls, e.text)

\* variant: every TLS error is handed to the parser
HandleKeyExchangeFailure_without_indicators(e, d) ==
  IF e.cls \in TLSClasses
    THEN _parse_key_exchange_error(e, d)
    ELSE Reraise(e)

\* the except clauses of check_weak_key_exchange
HandleKeyExchangeFailure(e, d) ==
  IF e.cls \in TLSClasses
    THEN LET error_msg == Lower(e.text)
             parsed == _parse_key_exchange_error(e, d)
         IN IF /\ \E indicator \in check_weak_key_exchange_indicators :
                    Contains(error_msg, indicator)
               /\ parsed.kind = "raise"
              THEN parsed
              ELSE Reraise(e)
    ELSE Reraise(e)

\* check_weak_key_exchange is called: the HTTPS GET is issued
KxCall(d) ==
  /\ pc = "idle"
  /\ domain' = d
  /\ requests' = Append(requests, https_url(d))
  /\ pc' = "kx_await"
  /\ UNCHANGED <<skip_domain_whitelist, https_error, result, outcomes>>

\* the GET and response.read() succeed
KxSucceeds(resp) ==
  /\ pc = "kx_await"
  /\ outcomes' = Append(outcomes, Succeeded(resp))
  /\ result' = ReturnTrue
  /\ pc' = "kx_done"
  /\ UNCHANGED <<domain, skip_domain_whitelist, requests, https_error>>

\* the GET raises e
KxRaises(e) ==
  /\ pc = "kx_await"
  /\ outcomes' = Append(outcomes, Failed(e))
  /\ result' = HandleKeyExchangeFailure(e, domain)
  /\ pc' = "kx_done"
  /\ UNCHANGED <<domain, skip_domain_whitelist, requests, https_error>>

NextKx ==
  \/ \E d \in Domains : KxCall(d) /\ UNCHANGED <<tokenVars, parserVars, caVars, fetchVars, endpointVars, groupVars, bankVars, retryVars, connectorVars>>
  \/ \E r \in Responses(domain) : KxSucceeds(r) /\ UNCHANGED <<tokenVars, parserVars, caVars, fetchVars, endpointVars, groupVars, bankVars, retryVars, connectorVars>>
  \/ \E e \in Exceptions : KxRaises(e) /\ UNCHANGED <<tokenVars, parserVars, caVars, fetchVars, endpointVars, groupVars, bankVars, retryVars, connectorVars>>

SpecKx == Init /\ [][NextKx]_vars

(***************************************************************************)
(* checks/ca_chain.py                                                      *)
(***************************************************************************)
EXPECTED_ROOT_CA_CN ==
  Str(<<"C","e","r","t","u","m"," ","T","r","u","s","t","e","d"," ","N","e","t","w","o","r","k"," ","C","A">>)

EXPECTED_ROOT_CA_ORG ==
  Str(<<"U","n","i","z","e","t","o"," ","T","e","c","h","n","o","l","o","g","i","e","s"," ","S",".","A",".">>)

\* Python's None: no string equals it
None ==
  <<-1>>

\* str() as applied by an f-string
PyStr(v) ==
  IF v = None THEN Str(<<"N","o","n","e">>) ELSE v

MaxChain == 2

\* subject and issuer names: common name and organisation, either may be absent
CertNames ==
  { [CN |-> EXPECTED_ROOT_CA_CN, O |-> EXPECTED_ROOT_CA_ORG],
    [CN |-> EXPECTED_ROOT_CA_CN, O |-> Str(<<"A","s","s","e","c","o"," ","D","a","t","a"," ","S","y","s","t","e","m","s"," ","S",".","A",".">>)],
    [CN |-> Str(<<"G","T","S"," ","R","o","o","t"," ","R","1">>), O |-> EXPECTED_ROOT_CA_ORG],
    [CN |-> Str(<<"G","T","S"," ","R","o","o","t"," ","R","1">>), O |-> Str(<<"G","o","o","g","l","e"," ","T","r","u","s","t"," ","S","e","r","v","i","c","e","s"," ","L","L","C">>)],
    [CN |-> None, O |-> None] }

Certificates ==
  [subject : CertNames, issuer : CertNames]

\* what connection.get_peer_cert_chain() can return; None counts as empty
CertChains ==
  SeqsUpTo(Certificates, MaxChain)

\* exceptions raised while connecting and shaking hands
FetchErrors ==
  [cls : {"OpenSSL.SSL.Error", "socket.timeout", "socket.error", "Exception"},
   text : { Str(<<"t","i","m","e","d"," ","o","u","t">>), Str(<<"C","o","n","n","e","c","t","i","o","n"," ","t","i","m","e","o","u","t"," ","d","u","r","i","n","g"," ","h","a","n","d","s","h","a","k","e">>) }]

Return(value) ==
  [kind |-> "return", value |-> value]

_get_cert_chain_sync(d, h) ==
  IF h.error.cls = "OpenSSL.SSL.Error"
    THEN Raise("CertificateError",
               Str(<<"S","S","L"," ","e","r","r","o","r"," ","r","e","t","r","i","e","v","i","n","g"," ","c","e","r","t","i","f","i","c","a","t","e"," ","c","h","a","i","n"," ","f","o","r"," ">>) \o d \o Str(<<":"," ">>) \o h.error.text)
  ELSE IF h.error.cls = "socket.timeout"
    THEN Raise("CertificateError",
               Str(<<"C","o","n","n","e","c","t","i","o","n"," ","t","i","m","e","o","u","t"," ","w","h","i","l","e"," ","r","e","t","r","i","e","v","i","n","g"," ","c","e","r","t","i","f","i","c","a","t","e"," ","c","h","a","i","n"," ","f","o","r"," ">>) \o d)
  ELSE IF h.error.cls = "socket.error"
    THEN Raise("CertificateError",
               Str(<<"S","o","c","k","e","t"," ","e","r","r","o","r"," ","r","e","t","r","i","e","v","i","n","g"," ","c","e","r","t","i","f","i","c","a","t","e"," ","c","h","a","i","n"," ","f","o","r"," ">>) \o d \o Str(<<":"," ">>) \o h.error.text)
  ELSE IF h.error # NoError
    THEN Raise("CertificateError",
               Str(<<"E","r","r","o","r"," ","r","e","t","r","i","e","v","i","n","g"," ","c","e","r","t","i","f","i","c","a","t","e"," ","c","h","a","i","n"," ","f","o","r"," ">>) \o d \o Str(<<":"," ">>) \o h.error.text)
  ELSE IF h.chain = <<>>
    THEN Raise("CertificateError",
               Str(<<"E","r","r","o","r"," ","r","e","t","r","i","e","v","i","n","g"," ","c","e","r","t","i","f","i","c","a","t","e"," ","c","h","a","i","n"," ","f","o","r"," ">>) \o d \o Str(<<":"," ">>)
                 \o Str(<<"N","o"," ","c","e","r","t","i","f","i","c","a","t","e"," ","c","h","a","i","n"," ","r","e","t","u","r","n","e","d"," ","f","o","r"," ","d","o","m","a","i","n"," ">>) \o d)
  ELSE Return(h.chain)

_extract_cert_subject_info(cert) ==
  <<cert.subject.CN, cert.subject.O>>

_extract_cert_issuer_info(cert) ==
  <<cert.issuer.CN, cert.issuer.O>>

\* variant: the organisation is not compared
IsExpectedRoot_cn_only(info) ==
  info[1] = EXPECTED_ROOT_CA_CN

\* the root CA test applied to a (cn, org) pair
IsExpectedRoot(info) ==
  info[1] = EXPECTED_ROOT_CA_CN /\ info[2] = EXPECTED_ROOT_CA_ORG

check_ca_chain(d, h) ==
  LET fetched == _get_cert_chain_sync(d, h) IN
  IF fetched.kind = "raise" THEN fetched
  ELSE LET cert_chain == fetched.value
           last_cert == cert_chain[Len(cert_chain)]
           issuer_cn == _extract_cert_issuer_info(last_cert)[1]
       IN IF cert_chain = <<>>
            THEN Raise("CertificateError", Str(<<"E","m","p","t","y"," ","c","e","r","t","i","f","i","c","a","t","e"," ","c","h","a","i","n"," ","f","o","r"," ","d","o","m","a","i","n"," ">>) \o d)
          ELSE IF \E i \in 1..Len(cert_chain) :
                    IsExpectedRoot(_extract_cert_subject_info(cert_chain[i]))
            THEN ReturnTrue
          ELSE IF IsExpectedRoot(_extract_cert_issuer_info(last_cert))
            THEN ReturnTrue
          ELSE Raise("CertificateError",
                     Str(<<"D","o","m","a","i","n"," ">>) \o d \o Str(<<" ","u","s","e","s"," ","d","i","f","f","e","r","e","n","t"," ","r","o","o","t"," ","C","A","."," ">>)
                       \o Str(<<"E","x","p","e","c","t","e","d"," ","C","N","=","'">>) \o EXPECTED_ROOT_CA_CN \o Str(<<"'",","," ","g","o","t"," ","C","N","=","'">>)
                       \o PyStr(issuer_cn) \o Str(<<"'">>))

\* check_ca_chain is called: the fetch starts in a worker thread
CaCall(d) ==
  /\ pc = "idle"
  /\ domain' = d
  /\ pc' = "ca_await"
  /\ UNCHANGED <<skip_domain_whitelist, requests, https_error, result, outcomes, handshake>>

\* the handshake completes and the peer's chain is read
ChainFetched(chain) ==
  /\ pc = "ca_await"
  /\ handshake' = [error |-> NoError, chain |-> chain]
  /\ result' = check_ca_chain(domain, handshake')
  /\ pc' = "ca_done"
  /\ UNCHANGED <<domain, skip_domain_whitelist, requests, https_error, outcomes>>

\* connecting or the handshake raises e
ChainFetchFails(e) ==
  /\ pc = "ca_await"
  /\ handshake' = [error |-> e, chain |-> <<>>]
  /\ result' = check_ca_chain(domain, handshake')
  /\ pc' = "ca_done"
  /\ UNCHANGED <<domain, skip_domain_whitelist, requests, https_error, outcomes>>

NextCA ==
  \/ \E d \in Domains : CaCall(d) /\ UNCHANGED <<tokenVars, parserVars, fetchVars, endpointVars, groupVars, bankVars, retryVars, connectorVars>>
  \/ \E chain \in CertChains : ChainFetched(chain) /\ UNCHANGED <<tokenVars, parserVars, fetchVars, endpointVars, groupVars, bankVars, retryVars, connectorVars>>
  \/ \E e \in FetchErrors : ChainFetchFails(e) /\ UNCHANGED <<tokenVars, parserVars, fetchVars, endpointVars, groupVars, bankVars, retryVars, connectorVars>>

SpecCA == Init /\ [][NextCA]_vars
(***************************************************************************)
(* The Verifier as a service: the clock advances, a client has tokens      *)
(* generated and presents genuine, altered and forged tokens for           *)
(* verification, one request at a time                                     *)
(***************************************************************************)
\* the token data a client reads out of a token (base64-decoded text)
TokenData(token) ==
  Utf8Decode(B64Decode(Utf8Encode(token)).bytes).s

\* and the way back
EncodeToken(token_data) ==
  B64Encode(Utf8Encode(token_data))

RECURSIVE Join(_, _)
Join(parts, sep) ==
  IF Len(parts) = 1 THEN parts[1]
  ELSE parts[1] \o sep \o Join(Tail(parts), sep)

\* characters a client writes over one character of the token data
FlipChars ==
  {Ord("0"), Ord("9"), Ord(":"), Ord(" "), Ord("a"), 233}

\* 1-based index of the ':'-separated field that holds position pos,
\* 0 for a separator
FieldAt(token_data, pos) ==
  IF token_data[pos] = ColonChar THEN 0
  ELSE 1 + Cardinality({i \in 1..(pos - 1) : token_data[i] = ColonChar})

\* the issued token with one character changed
Flipped(token_data) ==
  { [how |-> "flip", field |-> FieldAt(token_data, pos),
     token |-> EncodeToken([token_data EXCEPT ![pos] = c])] :
      <<pos, c>> \in {pc2 \in (1..Len(token_data)) \X FlipChars :
                        token_data[pc2[1]] # pc2[2]} }

\* values a client writes over a whole field of the issued token
FieldValues(field, now) ==
  IF field = 1 THEN { Str(<<"c",".","p","l">>) }
  ELSE IF field = 2 THEN { IntToStr(now) }
  ELSE IF field = 3 THEN { S_30 }
  ELSE IF field = 4 THEN { Str(<<"f","f">>) }
  ELSE { HmacHexDigest(k, <<>>) : k \in Keys \ {signing_key} }

\* the issued token with one field replaced
Replaced(token_data, now) ==
  LET parts == Split(token_data, ColonChar) IN
  { [how |-> "replace", field |-> fv[1],
     token |-> EncodeToken(Join([parts EXCEPT ![fv[1]] = fv[2]], Colon))] :
      fv \in {x \in UNION {{<<f, v>> : v \in FieldValues(f, now)} : f \in 1..Len(parts)} :
                x[1] <= 5 /\ parts[x[1]] # x[2]} }

\* tokens built from scratch by somebody who holds no signing key
Forged(now) ==
  { [how |-> "forge", field |-> 0,
     token |-> EncodeToken(Str(<<"b",".","p","l",":">>) \o IntToStr(now) \o Str(<<":","3","0",":","0","a",":">>)
                 \o HmacHexDigest(k, SignedMessage(S_b_pl, IntToStr(now), S_30, Str(<<"0","a">>))))] :
      k \in Keys \ {signing_key} }

\* strings that are no token at all
MalformedTokens ==
  { <<>>,
    Str(<<"a">>),
    Str(<<"a","b">>),
    Str(<<"t","h","i","s","_","i","s","_","n","o","t","_","a","_","v","a","l","i","d","_","t","o","k","e","n">>),
    <<233>>,
    EncodeToken(Str(<<"a",":","b",":","c",":","d",":","e">>)),
    EncodeToken(Str(<<"b",".","p","l",":","9","8">>)) }

Malformed ==
  { [how |-> "malformed", field |-> 0, token |-> t] : t \in MalformedTokens }

\* what a client may send to verify_token
VerifyRequests(tok, now) ==
  IF tok = <<>> THEN Forged(now) \cup Malformed
  ELSE {[how |-> "genuine", field |-> 0, token |-> tok]} \cup Forged(now) \cup Malformed
         \cup UNION { Flipped(token_data) \cup Replaced(token_data, now) :
                        token_data \in {TokenData(tok)} }

\* one second passes
Tick ==
  /\ response.op = "none"
  /\ current_time < StartTime + MaxTicks
  /\ current_time' = current_time + 1
  /\ UNCHANGED <<issued, response>>

\* POST /generate-token served by Verifier.generate_token (domain checks off,
\* the default)
GenerateToken(d, ttl_seconds, salt) ==
  /\ response.op = "none"
  /\ LET token == generate_token(d, ttl_seconds, salt, current_time) IN
     /\ issued' = [token |-> token, domain |-> d, ttl_seconds |-> ttl_seconds,
                   at |-> current_time]
     /\ response' = [NoReply EXCEPT !.op = "generate", !.token = token, !.at = current_time]
  /\ UNCHANGED current_time

\* POST /verify-token served by Verifier.verify_token
VerifyToken ==
  /\ response.op = "none"
  /\ \E req \in VerifyRequests(issued.token, current_time) :
       \E verdict \in {verify_token(req.token, current_time)} :
         response' =
           [op |-> "verify", how |-> req.how, field |-> req.field, token |-> req.token,
            at |-> current_time,
            valid |-> verdict.valid, reason |-> verdict.reason, domain |-> verdict.domain]
  /\ UNCHANGED <<current_time, issued>>

\* the client takes the response; the Verifier keeps nothing of it
ClientReceives ==
  /\ response.op # "none"
  /\ response' = NoReply
  /\ UNCHANGED <<current_time, issued>>

NextToken ==
  \/ Tick /\ UNCHANGED <<checkVars, parserVars, caVars, fetchVars, endpointVars, groupVars, bankVars, retryVars, connectorVars>>
  \/ \E d \in DomainInputs, ttl_seconds \in TTLs, salt \in Salts :
       GenerateToken(d, ttl_seconds, salt) /\ UNCHANGED <<checkVars, parserVars, caVars, fetchVars, endpointVars, groupVars, bankVars, retryVars, connectorVars>>
  \/ VerifyToken /\ UNCHANGED <<checkVars, parserVars, caVars, fetchVars, endpointVars, groupVars, bankVars, retryVars, connectorVars>>
  \/ ClientReceives /\ UNCHANGED <<checkVars, parserVars, caVars, fetchVars, endpointVars, groupVars, bankVars, retryVars, connectorVars>>

SpecToken == Init /\ [][NextToken]_vars

(***************************************************************************)
(* checks/ca_chain.py: _get_cert_chain_sync step by step                   *)
(***************************************************************************)
\* values of the argument timeout, in seconds
Timeouts ==
  {2, 3}

\* domains the chain is fetched for
FetchDomains ==
  { Str(<<"a",".","g","o","v",".","p","l">>), Str(<<"x",".","p","l">>) }

\* chains the peer sends
PeerChains ==
  {<<>>} \cup {<<cert>> : cert \in Certificates}

\* results of one non-blocking connection.do_handshake()
HandshakeResults ==
  {"done", "WantReadError", "WantWriteError", "OpenSSL.SSL.Error"}

\* variant: a failing connection.shutdown() ends the finally block
finally_block_unguarded(connection_bound) ==
  IF connection_bound THEN "closed" ELSE "open"

\* the finally block: shutdown inside try/except, then sock.close(); the
\* value is the state of the socket afterwards
finally_block(connection_bound) ==
  "closed"

\* the function is called: socket created, settimeout, connect starts
FetchCall(d, t) ==
  /\ pc = "idle"
  /\ domain' = d
  /\ fetch_timeout' = t
  /\ called_at' = current_time
  /\ sock' = "open"
  /\ pc' = "connecting"
  /\ UNCHANGED <<skip_domain_whitelist, requests, https_error, result, outcomes,
                 current_time, issued, response, handshake,
                 connection, start_time, wait_until>>

\* a second passes while the thread is blocked in sock.connect or in select
TimePasses ==
  /\ \/ pc = "connecting" /\ current_time - called_at < fetch_timeout
     \/ pc = "select" /\ current_time < wait_until
  /\ current_time' = current_time + 1
  /\ UNCHANGED <<checkVars, issued, response, handshake, fetchVars>>

\* sock.connect returns within the socket timeout; the connection object is
\* made and the handshake clock starts
ConnectSucceeds ==
  /\ pc = "connecting"
  /\ current_time - called_at < fetch_timeout
  /\ connection' = TRUE
  /\ start_time' = current_time
  /\ pc' = "handshake"
  /\ UNCHANGED <<domain, skip_domain_whitelist, requests, https_error, result, outcomes,
                 current_time, issued, response, handshake,
                 sock, fetch_timeout, called_at, wait_until>>

\* the function leaves through an except clause or the return, and the
\* finally block runs
FetchEnds(h) ==
  /\ handshake' = h
  /\ result' = _get_cert_chain_sync(domain, h)
  /\ sock' = finally_block(connection)
  /\ pc' = "fetch_done"
  /\ UNCHANGED <<domain, skip_domain_whitelist, requests, https_error, outcomes,
                 current_time, issued, response,
                 connection, fetch_timeout, called_at, start_time, wait_until>>

\* sock.connect raises: socket.timeout once the socket timeout has elapsed,
\* another socket.error before that
ConnectFails(e) ==
  /\ pc = "connecting"
  /\ e.cls \in {"socket.timeout", "socket.error"}
  /\ (e.cls = "socket.timeout") <=> (current_time - called_at >= fetch_timeout)
  /\ FetchEnds([error |-> e, chain |-> <<>>])

\* one pass of the handshake loop: the total-timeout test, do_handshake, and
\* on WantRead or WantWrite the computation of the remaining time
HandshakeStep(r, chain) ==
  /\ pc = "handshake"
  /\ LET elapsed == current_time - start_time
         remaining == fetch_timeout - elapsed
         timed_out == [cls |-> "socket.timeout",
                       text |-> Str(<<"C","o","n","n","e","c","t","i","o","n"," ","t","i","m","e","o","u","t"," ","d","u","r","i","n","g"," ","h","a","n","d","s","h","a","k","e">>)]
     IN IF elapsed > fetch_timeout
          THEN FetchEnds([error |-> timed_out, chain |-> <<>>])
        ELSE IF r = "done"
          THEN FetchEnds([error |-> NoError, chain |-> chain])
        ELSE IF r = "OpenSSL.SSL.Error"
          THEN FetchEnds([error |-> [cls |-> r, text |-> Str(<<"t","i","m","e","d"," ","o","u","t">>)], chain |-> <<>>])
        ELSE IF remaining <= 0
          THEN FetchEnds([error |-> timed_out, chain |-> <<>>])
        ELSE /\ wait_until' = current_time + remaining
             /\ pc' = "select"
             /\ UNCHANGED <<domain, skip_domain_whitelist, requests, https_error, result,
                            outcomes, current_time, issued, response, handshake,
                            sock, connection, fetch_timeout, called_at, start_time>>

\* select returns: the socket is ready or the remaining time is over
SelectReturns ==
  /\ pc = "select"
  /\ pc' = "handshake"
  /\ UNCHANGED <<domain, skip_domain_whitelist, requests, https_error, result, outcomes,
                 tokenVars, handshake, fetchVars>>

NextFetch ==
  \/ \E d \in FetchDomains, t \in Timeouts : FetchCall(d, t) /\ UNCHANGED <<parserVars, endpointVars, groupVars, bankVars, retryVars, connectorVars>>
  \/ TimePasses /\ UNCHANGED <<parserVars, endpointVars, groupVars, bankVars, retryVars, connectorVars>>
  \/ ConnectSucceeds /\ UNCHANGED <<parserVars, endpointVars, groupVars, bankVars, retryVars, connectorVars>>
  \/ \E e \in FetchErrors : ConnectFails(e) /\ UNCHANGED <<parserVars, endpointVars, groupVars, bankVars, retryVars, connectorVars>>
  \/ \E r \in HandshakeResults, chain \in PeerChains :
       HandshakeStep(r, chain) /\ UNCHANGED <<parserVars, endpointVars, groupVars, bankVars, retryVars, connectorVars>>
  \/ SelectReturns /\ UNCHANGED <<parserVars, endpointVars, groupVars, bankVars, retryVars, connectorVars>>

SpecFetch == Init /\ [][NextFetch]_vars

(***************************************************************************)
(* weryfikator/main.py: POST /generate-token                               *)
(***************************************************************************)
HTTPException(status_code, detail) ==
  [status_code |-> status_code, detail |-> detail]

\* variant: a whitelist failure is answered like the other check failures
HTTPExceptionFor_bad_request_only(r) ==
  HTTPException(400, Str(<<"S","e","c","u","r","i","t","y"," ","c","h","e","c","k"," ","f","a","i","l","e","d",":"," ">>) \o r.message)

\* the except clauses of the endpoint
HTTPExceptionFor(r) ==
  IF r.exc = "DomainError"
    THEN HTTPException(403, Str(<<"D","o","m","a","i","n"," ","n","o","t"," ","a","l","l","o","w","e","d",":"," ">>) \o r.message)
  ELSE IF r.exc = "CertificateError"
    THEN HTTPException(400, Str(<<"S","S","L","/","C","e","r","t","i","f","i","c","a","t","e"," ","e","r","r","o","r",":"," ">>) \o r.message)
  ELSE IF r.exc = "KeyExchangeError"
    THEN HTTPException(400, Str(<<"K","e","y"," ","e","x","c","h","a","n","g","e"," ","e","r","r","o","r",":"," ">>) \o r.message)
  ELSE IF r.exc = "HTTPError"
    THEN HTTPException(400, Str(<<"H","T","T","P"," ","s","e","c","u","r","i","t","y"," ","e","r","r","o","r",":"," ">>) \o r.message)
  ELSE HTTPException(400, Str(<<"S","e","c","u","r","i","t","y"," ","c","h","e","c","k"," ","f","a","i","l","e","d",":"," ">>) \o r.message)

\* the request arrives; with domain checks enabled check_domain_security is
\* called with skip_domain_whitelist=False
PostGenerateToken(d, enabled) ==
  /\ ep_pc = "idle"
  /\ pc = "idle"
  /\ enable_domain_checks' = enabled
  /\ IF enabled
       THEN /\ Call(d, FALSE)
            /\ ep_pc' = "security"
       ELSE /\ domain' = d
            /\ ep_pc' = "mint"
            /\ UNCHANGED <<pc, skip_domain_whitelist, requests, https_error, result, outcomes>>
  /\ UNCHANGED http_reply

\* check_domain_security has ended; on success verify_domain runs and
\* check_ca_chain is called
SecurityCheckReturns ==
  /\ ep_pc = "security"
  /\ pc = "done"
  /\ IF result.kind = "raise"
       THEN /\ http_reply' = HTTPExceptionFor(result)
            /\ ep_pc' = "responded"
            /\ UNCHANGED <<pc, result>>
     ELSE IF verify_domain(domain).kind = "raise"
       THEN /\ result' = verify_domain(domain)
            /\ http_reply' = HTTPExceptionFor(verify_domain(domain))
            /\ ep_pc' = "responded"
            /\ UNCHANGED pc
     ELSE /\ pc' = "ca_await"
          /\ ep_pc' = "ca_chain"
          /\ UNCHANGED <<result, http_reply>>
  /\ UNCHANGED <<domain, skip_domain_whitelist, requests, https_error, outcomes,
                 enable_domain_checks>>

\* check_ca_chain has ended
ChainCheckReturns ==
  /\ ep_pc = "ca_chain"
  /\ pc = "ca_done"
  /\ IF result.kind = "raise"
       THEN /\ http_reply' = HTTPExceptionFor(result)
            /\ ep_pc' = "responded"
       ELSE /\ ep_pc' = "mint"
            /\ UNCHANGED http_reply
  /\ UNCHANGED <<checkVars, enable_domain_checks>>

\* verifier.generate_token is called and the token is returned with 201
MintToken(ttl, salt) ==
  /\ ep_pc = "mint"
  /\ GenerateToken(domain, ttl, salt)
  /\ http_reply' = HTTPException(201, <<>>)
  /\ ep_pc' = "responded"
  /\ UNCHANGED <<checkVars, enable_domain_checks>>

NextGenerate ==
  \/ \E d \in Domains, enabled \in BOOLEAN :
       PostGenerateToken(d, enabled) /\ UNCHANGED <<tokenVars, parserVars, caVars, fetchVars, groupVars, bankVars, retryVars, connectorVars>>
  \/ \E r \in Responses(domain) :
       HttpsSucceeds(r) /\ UNCHANGED <<tokenVars, parserVars, caVars, fetchVars, endpointVars, groupVars, bankVars, retryVars, connectorVars>>
  \/ \E e \in Exceptions :
       HttpsRaises(e) /\ UNCHANGED <<tokenVars, parserVars, caVars, fetchVars, endpointVars, groupVars, bankVars, retryVars, connectorVars>>
  \/ HttpSucceeds /\ UNCHANGED <<tokenVars, parserVars, caVars, fetchVars, endpointVars, groupVars, bankVars, retryVars, connectorVars>>
  \/ \E e \in Exceptions :
       HttpRaises(e) /\ UNCHANGED <<tokenVars, parserVars, caVars, fetchVars, endpointVars, groupVars, bankVars, retryVars, connectorVars>>
  \/ SecurityCheckReturns /\ UNCHANGED <<tokenVars, parserVars, caVars, fetchVars, groupVars, bankVars, retryVars, connectorVars>>
  \/ \E chain \in PeerChains :
       ChainFetched(chain) /\ UNCHANGED <<tokenVars, parserVars, fetchVars, endpointVars, groupVars, bankVars, retryVars, connectorVars>>
  \/ \E e \in FetchErrors :
       ChainFetchFails(e) /\ UNCHANGED <<tokenVars, parserVars, fetchVars, endpointVars, groupVars, bankVars, retryVars, connectorVars>>
  \/ ChainCheckReturns /\ UNCHANGED <<tokenVars, parserVars, caVars, fetchVars, groupVars, bankVars, retryVars, connectorVars>>
  \/ \E ttl \in TTLs, salt \in Salts :
       MintToken(ttl, salt) /\ UNCHANGED <<parserVars, caVars, fetchVars, groupVars, bankVars, retryVars, connectorVars>>

SpecGenerate == Init /\ [][NextGenerate]_vars

(***************************************************************************)
(* checks/key_exchange_errors.py: check_key_exchange_group                 *)
(***************************************************************************)
MaxGroup == 3

\* the argument domains: lists of up to MaxGroup names, repetitions included
GroupDomains ==
  { Str(<<"a",".","g","o","v",".","p","l">>), Str(<<"x",".","p","l">>) }

DomainLists ==
  SeqsUpTo(GroupDomains, MaxGroup)

\* what the request of one check_weak_key_exchange call can raise
GroupExceptions ==
  { [cls |-> "ClientConnectorSSLError", text |-> Str(<<"d","h"," ","k","e","y"," ","t","o","o"," ","s","m","a","l","l">>)],
    [cls |-> "ClientConnectorCertificateError", text |-> Str(<<"c","e","r","t","i","f","i","c","a","t","e"," ","h","a","s"," ","e","x","p","i","r","e","d">>)],
    [cls |-> "TimeoutError", text |-> <<>>],
    [cls |-> "ClientConnectorError", text |-> Str(<<"C","a","n","n","o","t"," ","c","o","n","n","e","c","t"," ","t","o"," ","h","o","s","t">>)] }

\* values of the returned dictionary: True or a string
PyTrue ==
  [type |-> "bool", str |-> <<>>]

PyString(s) ==
  [type |-> "str", str |-> s]

\* variant: only KeyExchangeError is reported, other failures count as passed
check_one_only_key_exchange(d, r) ==
  IF r.kind = "raise" /\ r.exc = "KeyExchangeError"
    THEN <<d, PyString(r.message)>>
    ELSE <<d, PyTrue>>

\* check_one applied to the way check_weak_key_exchange ended
check_one(d, r) ==
  IF r.kind # "raise"
    THEN <<d, PyTrue>>
  ELSE IF r.exc = "KeyExchangeError"
    THEN <<d, PyString(r.message)>>
  ELSE <<d, PyString(Str(<<"C","h","e","c","k"," ","f","a","i","l","e","d",":"," ">>) \o r.message)>>

\* dict() of a list of pairs: a later pair replaces an earlier one with the
\* same key
dict(pairs) ==
  [d \in {pairs[i][1] : i \in 1..Len(pairs)} |->
     pairs[CHOOSE i \in 1..Len(pairs) :
             /\ pairs[i][1] = d
             /\ \A j \in 1..Len(pairs) : pairs[j][1] = d => j <= i][2]]

\* check_key_exchange_group is called: gather starts one check_one per
\* listed domain
GroupCall(domains) ==
  /\ pc = "idle"
  /\ tasks' = [i \in 1..Len(domains) |->
                 [domain |-> domains[i], pc |-> "await", outcome |-> Failed(NoError),
                  returned |-> <<>>]]
  /\ pc' = "gather"
  /\ UNCHANGED <<domain, skip_domain_whitelist, requests, https_error, result, outcomes,
                 results>>

\* the request of task i succeeds and its check_one returns
TaskSucceeds(i) ==
  /\ pc = "gather"
  /\ i \in 1..Len(tasks)
  /\ tasks[i].pc = "await"
  /\ tasks' = [tasks EXCEPT ![i] =
                 [domain |-> tasks[i].domain, pc |-> "done",
                  outcome |-> Succeeded([url |-> https_url(tasks[i].domain), history |-> <<>>]),
                  returned |-> check_one(tasks[i].domain, ReturnTrue)]]
  /\ UNCHANGED <<checkVars, results>>

\* the request of task i raises e and its check_one returns
TaskRaises(i, e) ==
  /\ pc = "gather"
  /\ i \in 1..Len(tasks)
  /\ tasks[i].pc = "await"
  /\ tasks' = [tasks EXCEPT ![i] =
                 [domain |-> tasks[i].domain, pc |-> "done",
                  outcome |-> Failed(e),
                  returned |-> check_one(tasks[i].domain,
                                         HandleKeyExchangeFailure(e, tasks[i].domain))]]
  /\ UNCHANGED <<checkVars, results>>

\* every task has returned: gather returns their pairs in list order
GroupReturns ==
  /\ pc = "gather"
  /\ \A i \in 1..Len(tasks) : tasks[i].pc = "done"
  /\ results' = dict([i \in 1..Len(tasks) |-> tasks[i].returned])
  /\ pc' = "group_done"
  /\ UNCHANGED <<domain, skip_domain_whitelist, requests, https_error, result, outcomes,
                 tasks>>

NextGroup ==
  \/ \E domains \in DomainLists :
       GroupCall(domains) /\ UNCHANGED <<tokenVars, parserVars, caVars, fetchVars, endpointVars, bankVars, retryVars, connectorVars>>
  \/ \E i \in 1..MaxGroup :
       TaskSucceeds(i) /\ UNCHANGED <<tokenVars, parserVars, caVars, fetchVars, endpointVars, bankVars, retryVars, connectorVars>>
  \/ \E i \in 1..MaxGroup, e \in GroupExceptions :
       TaskRaises(i, e) /\ UNCHANGED <<tokenVars, parserVars, caVars, fetchVars, endpointVars, bankVars, retryVars, connectorVars>>
  \/ GroupReturns /\ UNCHANGED <<tokenVars, parserVars, caVars, fetchVars, endpointVars, bankVars, retryVars, connectorVars>>

SpecGroup == Init /\ [][NextGroup]_vars

(***************************************************************************)
(* bank/main.py: update_secret_file and lifespan                           *)
(***************************************************************************)
MaxAttempts == 3

\* the argument of asyncio.sleep
SleepSeconds == 10

\* ways one attempt (get_connector, generate_token, writing the file) ends
AttemptOutcomes ==
  { [kind |-> "token", token |-> Str(<<"d","G","9","r","Z","W","4","x">>)],
    [kind |-> "token", token |-> Str(<<"d","G","9","r","Z","W","4","y">>)],
    [kind |-> "TimeoutException", token |-> <<>>],
    [kind |-> "ConnectError", token |-> <<>>],
    [kind |-> "HTTPStatusError", token |-> <<>>],
    [kind |-> "Exception", token |-> <<>>] }

\* variant: the catch-all clause names BaseException
CaughtInLoop_base_exception(kind) ==
  TRUE

\* whether the except clauses of the loop catch an exception of this kind
CaughtInLoop(kind) ==
  kind \in {"TimeoutException", "ConnectError", "HTTPStatusError", "Exception"}

\* variant: the delay doubles after a failed attempt
SleepAfter_backoff(outcome, n) ==
  IF outcome.kind = "token" THEN SleepSeconds ELSE 2 * SleepSeconds

\* the delay before the next attempt, after the n-th attempt ended
SleepAfter(outcome, n) ==
  SleepSeconds

\* startup: get_connector, then the task is created
Startup ==
  /\ lifespan_pc = "startup"
  /\ bank_connector' = "open"
  /\ task_pc' = "created"
  /\ lifespan_pc' = "serving"
  /\ UNCHANGED <<current_time, secret_file, wake_at, attempts, cancel_requested, last_outcome>>

\* the task enters the try block: at its start, or when its sleep is over;
\* get_connector makes a connector when there is none
AttemptStarts ==
  /\ \/ task_pc = "created"
     \/ task_pc = "sleeping" /\ current_time = wake_at
  /\ ~cancel_requested
  /\ attempts < MaxAttempts
  /\ attempts' = attempts + 1
  /\ bank_connector' = "open"
  /\ task_pc' = "requesting"
  /\ UNCHANGED <<current_time, lifespan_pc, secret_file, wake_at, cancel_requested,
                 last_outcome>>

\* the attempt ends with a token, which is written to the file, or with an
\* exception, which an except clause prints; then asyncio.sleep starts
AttemptEnds(outcome) ==
  /\ task_pc = "requesting"
  /\ ~cancel_requested
  /\ outcome.kind = "token" \/ CaughtInLoop(outcome.kind)
  /\ secret_file' = IF outcome.kind = "token" THEN outcome.token ELSE secret_file
  /\ last_outcome' = outcome
  /\ wake_at' = current_time + SleepAfter(outcome, attempts)
  /\ task_pc' = "sleeping"
  /\ UNCHANGED <<current_time, lifespan_pc, bank_connector, attempts, cancel_requested>>

\* a second passes while the task sleeps
SleepTick ==
  /\ task_pc = "sleeping"
  /\ current_time < wake_at
  /\ current_time' = current_time + 1
  /\ UNCHANGED <<task_pc, lifespan_pc, bank_connector, secret_file, wake_at, attempts,
                 cancel_requested, last_outcome>>

\* shutdown begins: token_generator_task.cancel(), then the task is awaited
Shutdown ==
  /\ lifespan_pc = "serving"
  /\ cancel_requested' = TRUE
  /\ lifespan_pc' = "awaiting_task"
  /\ UNCHANGED <<current_time, task_pc, bank_connector, secret_file, wake_at, attempts,
                 last_outcome>>

\* CancelledError is thrown into the task where it waits: inside the try
\* block while the request is pending, outside it before the first step and
\* during the sleep
CancelDelivered ==
  /\ cancel_requested
  /\ task_pc \in {"created", "requesting", "sleeping"}
  /\ cancel_requested' = FALSE
  /\ IF task_pc = "requesting" /\ CaughtInLoop("CancelledError")
       THEN /\ task_pc' = "sleeping"
            /\ wake_at' = current_time + SleepSeconds
            /\ last_outcome' = [kind |-> "CancelledError", token |-> <<>>]
       ELSE /\ task_pc' = "cancelled"
            /\ UNCHANGED <<wake_at, last_outcome>>
  /\ UNCHANGED <<current_time, lifespan_pc, bank_connector, secret_file, attempts>>

\* 'await token_generator_task' returns with CancelledError, which is caught
TaskAwaited ==
  /\ lifespan_pc = "awaiting_task"
  /\ task_pc = "cancelled"
  /\ lifespan_pc' = "closing"
  /\ UNCHANGED <<current_time, task_pc, bank_connector, secret_file, wake_at, attempts,
                 cancel_requested, last_outcome>>

\* close_connector()
BankCloseConnector ==
  /\ lifespan_pc = "closing"
  /\ bank_connector' = "closed"
  /\ lifespan_pc' = "stopped"
  /\ UNCHANGED <<current_time, task_pc, secret_file, wake_at, attempts, cancel_requested,
                 last_outcome>>

\* what the bank leaves alone
NotBank ==
  <<checkVars, issued, response, parserVars, caVars, fetchVars, endpointVars, groupVars,
    retryVars, connectorVars>>

NextBank ==
  \/ Startup /\ UNCHANGED NotBank
  \/ AttemptStarts /\ UNCHANGED NotBank
  \/ \E outcome \in AttemptOutcomes : AttemptEnds(outcome) /\ UNCHANGED NotBank
  \/ SleepTick /\ UNCHANGED NotBank
  \/ Shutdown /\ UNCHANGED NotBank
  \/ CancelDelivered /\ UNCHANGED NotBank
  \/ TaskAwaited /\ UNCHANGED NotBank
  \/ BankCloseConnector /\ UNCHANGED NotBank

SpecBank == Init /\ [][NextBank]_vars

(***************************************************************************)
(* mObywatel: WeryfikatorConnector.verify_token and the endpoint           *)
(***************************************************************************)
\* stop=stop_after_attempt(3)
stop_after_attempt == 3

\* ways one POST /verify-token to weryfikator ends: a response that passes
\* raise_for_status, or an exception; status is the response's status code
PostOutcomes ==
  { [kind |-> "response", status |-> 200],
    [kind |-> "HTTPStatusError", status |-> 401],
    [kind |-> "HTTPStatusError", status |-> 500],
    [kind |-> "TimeoutException", status |-> 0],
    [kind |-> "ConnectTimeout", status |-> 0],
    [kind |-> "ReadTimeout", status |-> 0],
    [kind |-> "ConnectError", status |-> 0],
    [kind |-> "Exception", status |-> 0] }

\* isinstance(e, classes) over the httpx exceptions above: ConnectTimeout and
\* ReadTimeout are subclasses of TimeoutException
isinstance(e, classes) ==
  \/ e.kind \in classes
  \/ e.kind \in {"ConnectTimeout", "ReadTimeout"} /\ "TimeoutException" \in classes

\* variant: every exception is retried
retry_if_exception_type_any(e) ==
  e.kind # "response"

\* retry=retry_if_exception_type((httpx.TimeoutException, httpx.ConnectError))
retry_if_exception_type(e) ==
  isinstance(e, {"TimeoutException", "ConnectError"})

\* the except clauses of the endpoint, and its normal return
MobReplyFor(r) ==
  IF r.kind = "response"
    THEN HTTPException(200, <<>>)
  ELSE IF r.kind = "HTTPStatusError"
    THEN HTTPException(r.status, <<>>)
  ELSE IF isinstance(r, {"TimeoutException", "ConnectError"})
    THEN HTTPException(503, Str(<<"U","n","a","b","l","e"," ","t","o"," ","r","e","a","c","h"," ","v","e","r","i","f","i","c","a","t","i","o","n"," ","s","e","r","v","i","c","e",":"," ">>))
  ELSE HTTPException(500, Str(<<"I","n","t","e","r","n","a","l"," ","e","r","r","o","r",":"," ">>))

\* a request reaches the endpoint, which calls connector.verify_token: first
\* attempt
MobVerifyCall ==
  /\ conn_pc \in {"idle", "responded"}
  /\ attempt_number' = 1
  /\ raised' = <<>>
  /\ conn_result' = NoOutcome
  /\ mob_reply' = NoHttpReply
  /\ conn_pc' = "posting"

\* the POST of the current attempt returns a good response
PostReturns(outcome) ==
  /\ conn_pc = "posting"
  /\ outcome.kind = "response"
  /\ conn_result' = outcome
  /\ conn_pc' = "ended"
  /\ UNCHANGED <<attempt_number, raised, mob_reply>>

\* the current attempt raises; tenacity retries it or re-raises
PostRaises(outcome) ==
  /\ conn_pc = "posting"
  /\ outcome.kind # "response"
  /\ raised' = Append(raised, outcome)
  /\ IF retry_if_exception_type(outcome) /\ attempt_number < stop_after_attempt
       THEN /\ attempt_number' = attempt_number + 1
            /\ UNCHANGED <<conn_pc, conn_result>>
       ELSE /\ conn_result' = outcome
            /\ conn_pc' = "ended"
            /\ UNCHANGED attempt_number
  /\ UNCHANGED mob_reply

\* the endpoint answers
MobResponds ==
  /\ conn_pc = "ended"
  /\ mob_reply' = MobReplyFor(conn_result)
  /\ conn_pc' = "responded"
  /\ UNCHANGED <<attempt_number, raised, conn_result>>

\* what the connector call leaves alone
NotRetry ==
  <<checkVars, tokenVars, parserVars, caVars, fetchVars, endpointVars, groupVars, bankVars,
    connectorVars>>

NextRetry ==
  \/ MobVerifyCall /\ UNCHANGED NotRetry
  \/ \E outcome \in PostOutcomes : PostReturns(outcome) /\ UNCHANGED NotRetry
  \/ \E outcome \in PostOutcomes : PostRaises(outcome) /\ UNCHANGED NotRetry
  \/ MobResponds /\ UNCHANGED NotRetry

SpecRetry == Init /\ [][NextRetry]_vars

(***************************************************************************)
(* mObywatel: the connector singleton                                      *)
(***************************************************************************)
\* most calls of get_connector and close_connector that return
MaxCalls == 4

\* base_url arguments
BaseUrls == {Str(<<"h","t","t","p",":","/","/","w","e","r","y","f","i","k","a","t","o","r",":","8","0","0","0">>), Str(<<"h","t","t","p",":","/","/","w","e","r","y","f","i","k","a","t","o","r",":","8","0","0","0","/">>), Str(<<"h","t","t","p",":","/","/","o","t","h","e","r",":","9","0","0","0">>)}

\* str.rstrip(chars)
RECURSIVE rstrip(_, _)
rstrip(s, chars) ==
  IF s # <<>> /\ s[Len(s)] \in chars THEN rstrip(SubSeq(s, 1, Len(s) - 1), chars) ELSE s

\* WeryfikatorConnector.__init__: an open client for the base url
WeryfikatorConnector(base_url) ==
  [base_url |-> rstrip(base_url, {Ord("/")}), state |-> "open"]

\* some close_connector coroutine is suspended in close()
CloseInProgress ==
  \E c \in CloseCoroutines : close_pc[c] # NoConnector

\* variant: every call creates a connector
get_connector_always_new(base_url) ==
  /\ Len(calls) < MaxCalls
  /\ connectors' = Append(connectors, WeryfikatorConnector(base_url))
  /\ _connector_instance' = Len(connectors')
  /\ calls' = Append(calls, [op |-> "get", base_url |-> base_url,
                             instance |-> _connector_instance',
                             state |-> connectors'[_connector_instance'].state])
  /\ UNCHANGED close_pc

\* get_connector(base_url): no await inside, so one step; the call records
\* what it returned and the state of that connector at the return
get_connector(base_url) ==
  /\ Len(calls) < MaxCalls
  /\ IF _connector_instance = NoConnector
       THEN /\ connectors' = Append(connectors, WeryfikatorConnector(base_url))
            /\ _connector_instance' = Len(connectors')
       ELSE UNCHANGED <<connectors, _connector_instance>>
  /\ calls' = Append(calls, [op |-> "get", base_url |-> base_url,
                             instance |-> _connector_instance',
                             state |-> connectors'[_connector_instance'].state])
  /\ UNCHANGED close_pc

\* close_connector with _connector_instance None: returns at once
CloseNothing(c) ==
  /\ Len(calls) < MaxCalls
  /\ close_pc[c] = NoConnector
  /\ _connector_instance = NoConnector
  /\ calls' = Append(calls, [op |-> "close", base_url |-> <<>>,
                             instance |-> NoConnector, state |-> "none"])
  /\ UNCHANGED <<_connector_instance, connectors, close_pc>>

\* close_connector up to the await: close() of the current instance starts
CloseStarts(c) ==
  /\ Len(calls) < MaxCalls
  /\ close_pc[c] = NoConnector
  /\ _connector_instance # NoConnector
  /\ close_pc' = [close_pc EXCEPT ![c] = _connector_instance]
  /\ connectors' = [connectors EXCEPT ![_connector_instance].state =
                      IF @ = "closed" THEN "closed" ELSE "closing"]
  /\ UNCHANGED <<_connector_instance, calls>>

\* close() returns: the client is closed, the global is reset, the call returns
CloseEnds(c) ==
  /\ close_pc[c] # NoConnector
  /\ connectors' = [connectors EXCEPT ![close_pc[c]].state = "closed"]
  /\ _connector_instance' = NoConnector
  /\ close_pc' = [close_pc EXCEPT ![c] = NoConnector]
  /\ calls' = Append(calls, [op |-> "close", base_url |-> <<>>,
                             instance |-> close_pc[c], state |-> "closed"])

\* what the singleton's functions leave alone
NotConnector ==
  <<checkVars, tokenVars, parserVars, caVars, fetchVars, endpointVars, groupVars, bankVars,
    retryVars>>

\* calls made one after another: a call starts when no other is in progress
NextSingleton ==
  \/ \E base_url \in BaseUrls :
       ~CloseInProgress /\ get_connector(base_url) /\ UNCHANGED NotConnector
  \/ \E c \in CloseCoroutines :
       ~CloseInProgress /\ CloseNothing(c) /\ UNCHANGED NotConnector
  \/ \E c \in CloseCoroutines :
       ~CloseInProgress /\ CloseStarts(c) /\ UNCHANGED NotConnector
  \/ \E c \in CloseCoroutines : CloseEnds(c) /\ UNCHANGED NotConnector

SpecSingleton == Init /\ [][NextSingleton]_vars

\* coroutines interleaved by the event loop at their awaits
NextConnector ==
  \/ \E base_url \in BaseUrls : get_connector(base_url) /\ UNCHANGED NotConnector
  \/ \E c \in CloseCoroutines : CloseNothing(c) /\ UNCHANGED NotConnector
  \/ \E c \in CloseCoroutines : CloseStarts(c) /\ UNCHANGED NotConnector
  \/ \E c \in CloseCoroutines : CloseEnds(c) /\ UNCHANGED NotConnector

SpecConnector == Init /\ [][NextConnector]_vars

(***************************************************************************)
(* Properties of check_domain_security                                     *)
(***************************************************************************)
\* the first request ended the check: it succeeded or raised a TLS-class error
FirstRequestDecides ==
  outcomes[1].ok \/ outcomes[1].exc.cls \in TLSClasses

\* C1: a call issues exactly 1 request when the HTTPS GET succeeds or raises
\* a TLS/certificate-class error and exactly 2 (HTTPS, then HTTP) when it
\* raises anything else; never more than 2, and no URL is requested twice.
C1_RequestBudget ==
  /\ Len(requests) <= 2
  /\ \A i, j \in 1..Len(requests) : i # j => requests[i] # requests[j]
  /\ (pc = "done" /\ outcomes # <<>>) =>
       /\ Len(outcomes) = Len(requests)
       /\ IF FirstRequestDecides
            THEN requests = <<https_url(domain)>>
            ELSE requests = <<https_url(domain), http_url(domain)>>

C1_Witness ==
  /\ pc = "done"
  /\ Len(requests) = 2
  /\ ~FirstRequestDecides

\* C2: with skip_domain_whitelist false and a domain that is not an exact
\* member of the whitelist, the call raises DomainError with zero requests
\* issued; a request is only ever issued after the whitelist check passed.
C2_WhitelistBeforeRequest ==
  /\ (pc # "idle" /\ ~skip_domain_whitelist /\ domain \notin _GOV_DOMAINS) =>
       /\ pc = "done"
       /\ result.kind = "raise" /\ result.exc = "DomainError"
       /\ requests = <<>> /\ outcomes = <<>>
  /\ result.exc = "DomainError" => requests = <<>>
  /\ requests # <<>> => (skip_domain_whitelist \/ domain \in _GOV_DOMAINS)

C2_Witness ==
  /\ pc = "done"
  /\ result.exc = "DomainError"
  /\ Lower(domain) \in _GOV_DOMAINS
  /\ requests = <<>>

\* C3: a TLS/certificate-class error of the HTTPS GET ends the call with
\* KeyExchangeError when the lower-cased error text contains an indicator
\* keyword and with CertificateError otherwise; no HTTP fallback is issued.
C3_TLSErrorIsTerminal ==
  (outcomes # <<>> /\ ~outcomes[1].ok /\ outcomes[1].exc.cls \in TLSClasses) =>
    /\ pc = "done"
    /\ result.kind = "raise"
    /\ result.exc =
         IF \E k \in key_exchange_indicators : Contains(Lower(outcomes[1].exc.text), k)
           THEN "KeyExchangeError"
           ELSE "CertificateError"
    /\ requests = <<https_url(domain)>>
    /\ Len(outcomes) = 1

C3_Witness ==
  /\ pc = "done"
  /\ Len(outcomes) = 1
  /\ outcomes[1].exc.cls = "ClientSSLError"
  /\ outcomes[1].exc.text = Str(<<"K","e","y"," ","E","x","c","h","a","n","g","e"," ","f","a","i","l","e","d">>)
  /\ result.exc = "KeyExchangeError"

\* the response or one of its redirects used plain HTTP
UsedPlainHttp(resp) ==
  \/ StartsWith(resp.url, S_http_scheme)
  \/ \E i \in 1..Len(resp.history) : StartsWith(resp.history[i], S_http_scheme)

\* C4: after a successful HTTPS GET the call returns True exactly when neither
\* the final URL nor any URL of the redirect history starts with http://;
\* otherwise it raises HTTPError, and it never issues the HTTP fallback.
C4_DowngradeCheck ==
  (outcomes # <<>> /\ outcomes[1].ok) =>
    /\ pc = "done"
    /\ (result = ReturnTrue) <=> ~UsedPlainHttp(outcomes[1].response)
    /\ UsedPlainHttp(outcomes[1].response) =>
         (result.kind = "raise" /\ result.exc = "HTTPError")
    /\ requests = <<https_url(domain)>>
    /\ Len(outcomes) = 1

C4_Witness ==
  /\ pc = "done"
  /\ Len(outcomes) = 1 /\ outcomes[1].ok
  /\ StartsWith(outcomes[1].response.url, S_https_scheme)
  /\ UsedPlainHttp(outcomes[1].response)
  /\ result.exc = "HTTPError"

\* the two messages of the fallback path
HttpOnlyMessage ==
  Str(<<"D","o","m","a","i","n"," ">>) \o domain \o Str(<<" ","o","n","l","y"," ","a","c","c","e","p","t","s"," ","i","n","s","e","c","u","r","e"," ","H","T","T","P"," ","c","o","n","n","e","c","t","i","o","n","s","."," ","H","T","T","P","S"," ","f","a","i","l","e","d"," ","w","i","t","h",":"," ">>)
    \o outcomes[1].exc.text

UnreachableMessage ==
  Str(<<"D","o","m","a","i","n"," ">>) \o domain \o Str(<<" ","i","s"," ","u","n","r","e","a","c","h","a","b","l","e","."," ","H","T","T","P","S"," ","e","r","r","o","r",":"," ">>) \o outcomes[1].exc.text
    \o Str(<<"."," ","H","T","T","P"," ","e","r","r","o","r",":"," ">>) \o outcomes[2].exc.text

\* C5: after a non-TLS failure of the HTTPS GET the single HTTP fallback GET
\* decides: success raises HTTPError 'only accepts insecure HTTP connections'
\* with the HTTPS failure text, failure raises HTTPError 'is unreachable' with
\* both failure texts; the two are distinct and nothing else can result.
C5_FallbackDecides ==
  (pc = "done" /\ outcomes # <<>> /\ ~FirstRequestDecides) =>
    /\ Len(outcomes) = 2
    /\ result.kind = "raise" /\ result.exc = "HTTPError"
    /\ result.message = IF outcomes[2].ok THEN HttpOnlyMessage ELSE UnreachableMessage
    /\ HttpOnlyMessage # UnreachableMessage
    /\ Contains(result.message, outcomes[1].exc.text)
    /\ ~outcomes[2].ok => Contains(result.message, outcomes[2].exc.text)

C5_Witness ==
  /\ pc = "done"
  /\ Len(outcomes) = 2
  /\ ~outcomes[2].ok
  /\ outcomes[1].exc.text # <<>>
  /\ outcomes[2].exc.text # <<>>
  /\ outcomes[1].exc.text # outcomes[2].exc.text
  /\ result.message = UnreachableMessage


\* the HTTPS GET failed at the TLS layer with a 'certificate expired' error
ExpiredCertificateFailure ==
  /\ outcomes # <<>>
  /\ ~outcomes[1].ok
  /\ outcomes[1].exc.cls \in TLSClasses
  /\ Contains(Lower(outcomes[1].exc.text), Str(<<"c","e","r","t","i","f","i","c","a","t","e"," ","h","a","s"," ","e","x","p","i","r","e","d">>))

CertificateReasons ==
  << [keywords |-> { S_expired },
      reason |-> Str(<<"C","e","r","t","i","f","i","c","a","t","e"," ","h","a","s"," ","e","x","p","i","r","e","d"," ","f","o","r"," ">>)],
     [keywords |-> { Str(<<"h","o","s","t","n","a","m","e">>), Str(<<"d","o","e","s"," ","n","o","t"," ","m","a","t","c","h">>) },
      reason |-> Str(<<"C","e","r","t","i","f","i","c","a","t","e"," ","h","o","s","t","n","a","m","e"," ","m","i","s","m","a","t","c","h"," ","f","o","r"," ">>)],
     [keywords |-> { Str(<<"s","e","l","f"," ","s","i","g","n","e","d">>), Str(<<"s","e","l","f","-","s","i","g","n","e","d">>) },
      reason |-> Str(<<"S","e","l","f","-","s","i","g","n","e","d"," ","c","e","r","t","i","f","i","c","a","t","e"," ","d","e","t","e","c","t","e","d"," ","f","o","r"," ">>)],
     [keywords |-> { Str(<<"u","n","a","b","l","e"," ","t","o"," ","g","e","t"," ","l","o","c","a","l"," ","i","s","s","u","e","r">>), Str(<<"c","e","r","t","i","f","i","c","a","t","e"," ","v","e","r","i","f","y"," ","f","a","i","l","e","d">>) },
      reason |-> Str(<<"U","n","t","r","u","s","t","e","d"," ","r","o","o","t"," ","c","e","r","t","i","f","i","c","a","t","e"," ","f","o","r"," ">>)] >>

\* the reasons whose substrings occur in the lower-cased text
MatchingCertificateReasons(text) ==
  { i \in 1..Len(CertificateReasons) :
      \E k \in CertificateReasons[i].keywords : Contains(Lower(text), k) }

ExpectedCertificateError(text, url) ==
  LET hits == MatchingCertificateReasons(text) IN
  IF hits = {}
    THEN Raise("CertificateError", Str(<<"C","e","r","t","i","f","i","c","a","t","e"," ","e","r","r","o","r"," ","f","o","r"," ">>) \o url \o Str(<<":"," ">>) \o text)
    ELSE Raise("CertificateError",
               CertificateReasons[CHOOSE i \in hits : \A j \in hits : i <= j].reason \o url)

\* C16: _parse_ssl_error always raises CertificateError, with the reason of
\* the first match on the lower-cased text in the order expired, hostname
\* mismatch, self-signed, untrusted root, and otherwise the generic reason
\* that carries the original message; the same holds when
\* check_domain_security reports a certificate error.
C16_CertificateReasonOrder ==
  /\ pc = "ssl_parsed" =>
       /\ result.kind = "raise"
       /\ result.exc = "CertificateError"
       /\ result = ExpectedCertificateError(error.text, https_url(domain))
  /\ (pc = "done" /\ result.kind = "raise" /\ result.exc = "CertificateError") =>
       result = ExpectedCertificateError(outcomes[1].exc.text, https_url(domain))

C16_Witness ==
  /\ pc = "ssl_parsed"
  /\ error.text = Str(<<"c","e","r","t","i","f","i","c","a","t","e"," ","v","e","r","i","f","y"," ","f","a","i","l","e","d",":"," ","s","e","l","f"," ","s","i","g","n","e","d"," ","c","e","r","t","i","f","i","c","a","t","e">>)
  /\ Cardinality(MatchingCertificateReasons(error.text)) = 2
  /\ result.message = Str(<<"S","e","l","f","-","s","i","g","n","e","d"," ","c","e","r","t","i","f","i","c","a","t","e"," ","d","e","t","e","c","t","e","d"," ","f","o","r"," ">>) \o https_url(domain)

\* the reasons of KeyExchangeError in the order they are tried; a reason is
\* selected when all substrings of one of its alternatives occur
KeyExchangeReasons ==
  << [alternatives |-> { { Str(<<"b","a","d","_","d","h","_","v","a","l","u","e">>) }, { Str(<<"b","a","d"," ","d","h"," ","v","a","l","u","e">>) } },
      reason |-> Str(<<" ","u","s","e","s"," ","i","n","v","a","l","i","d"," ","o","r"," ","w","e","a","k"," ","D","i","f","f","i","e","-","H","e","l","l","m","a","n"," ","p","a","r","a","m","e","t","e","r","s"," ","(","b","a","d"," ","D","H"," ","v","a","l","u","e",")","."," ","T","h","i","s"," ","i","s"," ","v","u","l","n","e","r","a","b","l","e"," ","t","o"," ","a","t","t","a","c","k","s"," ","a","n","d"," ","r","e","j","e","c","t","e","d"," ","b","y"," ","m","o","d","e","r","n"," ","c","l","i","e","n","t","s",".">>),
      carries_text |-> FALSE],
     [alternatives |-> { { Str(<<"d","h"," ","k","e","y"," ","t","o","o"," ","s","m","a","l","l">>) }, { Str(<<"d","h","_","k","e","y","_","t","o","o","_","s","m","a","l","l">>) } },
      reason |-> Str(<<" ","u","s","e","s"," ","w","e","a","k"," ","D","i","f","f","i","e","-","H","e","l","l","m","a","n"," ","k","e","y"," ","e","x","c","h","a","n","g","e"," ","p","a","r","a","m","e","t","e","r","s"," ","(","k","e","y"," ","t","o","o"," ","s","m","a","l","l",")","."," ","T","h","i","s"," ","i","s"," ","v","u","l","n","e","r","a","b","l","e"," ","t","o"," ","a","t","t","a","c","k","s"," ","a","n","d"," ","r","e","j","e","c","t","e","d"," ","b","y"," ","m","o","d","e","r","n"," ","c","l","i","e","n","t","s",".">>),
      carries_text |-> FALSE],
     [alternatives |-> { { Str(<<"h","a","n","d","s","h","a","k","e"," ","f","a","i","l","u","r","e">>) }, { Str(<<"h","a","n","d","s","h","a","k","e","_","f","a","i","l","u","r","e">>) } },
      reason |-> Str(<<" ","S","S","L"," ","h","a","n","d","s","h","a","k","e"," ","f","a","i","l","e","d",","," ","p","o","s","s","i","b","l","y"," ","d","u","e"," ","t","o"," ","w","e","a","k"," ","k","e","y"," ","e","x","c","h","a","n","g","e"," ","p","a","r","a","m","e","t","e","r","s","."," ","E","r","r","o","r",":"," ">>),
      carries_text |-> TRUE],
     [alternatives |-> { { Str(<<"s","m","a","l","l">>), Str(<<"s","u","b","g","r","o","u","p">>) } },
      reason |-> Str(<<" ","u","s","e","s"," ","D","i","f","f","i","e","-","H","e","l","l","m","a","n"," ","p","a","r","a","m","e","t","e","r","s"," ","v","u","l","n","e","r","a","b","l","e"," ","t","o"," ","s","m","a","l","l"," ","s","u","b","g","r","o","u","p"," ","a","t","t","a","c","k","s",".">>),
      carries_text |-> FALSE],
     [alternatives |-> { { Str(<<"c","o","m","p","o","s","i","t","e">>) } },
      reason |-> Str(<<" ","u","s","e","s"," ","D","i","f","f","i","e","-","H","e","l","l","m","a","n"," ","p","a","r","a","m","e","t","e","r","s"," ","w","i","t","h"," ","c","o","m","p","o","s","i","t","e"," ","m","o","d","u","l","u","s"," ","(","v","u","l","n","e","r","a","b","l","e",")",".">>),
      carries_text |-> FALSE],
     [alternatives |-> { { Str(<<"s","s","l">>) }, { Str(<<"t","l","s">>) }, { Str(<<"c","i","p","h","e","r">>) } },
      reason |-> Str(<<" ","h","a","s"," ","k","e","y"," ","e","x","c","h","a","n","g","e"," ","o","r"," ","c","i","p","h","e","r"," ","s","u","i","t","e"," ","i","s","s","u","e","s",":"," ">>),
      carries_text |-> TRUE] >>

\* the reasons selected by the lower-cased text
MatchingKeyExchangeReasons(text) ==
  { i \in 1..Len(KeyExchangeReasons) :
      \E alt \in KeyExchangeReasons[i].alternatives :
        \A k \in alt : Contains(Lower(text), k) }

KeyExchangeMessage(i, text, d) ==
  Str(<<"D","o","m","a","i","n"," ">>) \o d \o KeyExchangeReasons[i].reason
    \o (IF KeyExchangeReasons[i].carries_text THEN text ELSE <<>>)

\* C17: _parse_key_exchange_error raises KeyExchangeError with the reason of
\* the first match on the lower-cased text in the order bad DH value, DH key
\* too small, handshake failure, small subgroup, composite modulus,
\* ssl/tls/cipher; and when the HTTPS GET of check_domain_security fails at
\* the TLS layer with a text containing bad_dh_value, the call raises
\* KeyExchangeError with a reason mentioning 'weak' or 'dh' after one request.
C17_KeyExchangeReasonOrder ==
  /\ pc = "kx_parsed" =>
       \A hits \in { MatchingKeyExchangeReasons(error.text) } :
         hits # {} =>
           /\ result.kind = "raise"
           /\ result.exc = "KeyExchangeError"
           /\ result.message =
                KeyExchangeMessage(CHOOSE i \in hits : \A j \in hits : i <= j,
                                   error.text, domain)
  /\ ( /\ outcomes # <<>>
       /\ ~outcomes[1].ok
       /\ outcomes[1].exc.cls \in TLSClasses
       /\ Contains(Lower(outcomes[1].exc.text), Str(<<"b","a","d","_","d","h","_","v","a","l","u","e">>)) ) =>
       /\ pc = "done"
       /\ result.kind = "raise"
       /\ result.exc = "KeyExchangeError"
       /\ \/ Contains(Lower(result.message), Str(<<"w","e","a","k">>))
          \/ Contains(Lower(result.message), Str(<<"d","h">>))
       /\ Len(requests) = 1

C17_Witness ==
  /\ pc = "kx_parsed"
  /\ error.text = Str(<<"h","a","n","d","s","h","a","k","e"," ","f","a","i","l","u","r","e",":"," ","d","h"," ","k","e","y"," ","t","o","o"," ","s","m","a","l","l">>)
  /\ MatchingKeyExchangeReasons(error.text) = {2, 3}
  /\ result.message = KeyExchangeMessage(2, error.text, domain)

\* the parser was called directly with a text that matches none of its patterns
UnmatchedKeyExchangeError ==
  /\ pc = "kx_parsed"
  /\ MatchingKeyExchangeReasons(error.text) = {}

\* C18 as stated: an error handed to _parse_key_exchange_error whose text
\* matches none of its patterns is re-raised unchanged and is not classified
\* as a key-exchange error.
C18_AsStated ==
  UnmatchedKeyExchangeError =>
    /\ result = Raise(error.cls, error.text)
    /\ result.exc # "KeyExchangeError"

\* C18: an error handed to _parse_key_exchange_error whose text matches none
\* of its patterns is raised as KeyExchangeError with the generic reason 'has
\* a key exchange related error' followed by the original text; unrelated
\* errors are kept from the parser by its caller: a TLS failure of the HTTPS
\* GET whose text holds no key-exchange indicator ends check_domain_security
\* with CertificateError.
C18_UnmatchedIsGeneric ==
  /\ UnmatchedKeyExchangeError =>
       result = Raise("KeyExchangeError",
                      Str(<<"D","o","m","a","i","n"," ">>) \o domain \o Str(<<" ","h","a","s"," ","a"," ","k","e","y"," ","e","x","c","h","a","n","g","e"," ","r","e","l","a","t","e","d"," ","e","r","r","o","r",":"," ">>) \o error.text)
  /\ ( /\ pc = "done"
       /\ outcomes # <<>>
       /\ ~outcomes[1].ok
       /\ outcomes[1].exc.cls \in TLSClasses
       /\ \A k \in key_exchange_indicators : ~Contains(Lower(outcomes[1].exc.text), k) ) =>
       (result.kind = "raise" /\ result.exc = "CertificateError")

C18_Witness ==
  /\ UnmatchedKeyExchangeError
  /\ error.cls = "ClientConnectorCertificateError"
  /\ error.text = Str(<<"c","e","r","t","i","f","i","c","a","t","e"," ","h","a","s"," ","e","x","p","i","r","e","d">>)
  /\ result.exc = "KeyExchangeError"

\* the GET of check_weak_key_exchange raised a TLS-class error whose text
\* holds a key-exchange indicator
KeyExchangeFailure ==
  /\ ~outcomes[1].ok
  /\ outcomes[1].exc.cls \in TLSClasses
  /\ \E k \in check_weak_key_exchange_indicators :
       Contains(Lower(outcomes[1].exc.text), k)

\* C19: check_weak_key_exchange raises KeyExchangeError only when its GET
\* raised a TLS-class error whose text holds a key-exchange indicator; any
\* other failure (timeout, DNS or connection failure, TLS error without an
\* indicator) propagates as the original exception, never as
\* KeyExchangeError.
C19_OnlyIndicatedErrors ==
  pc = "kx_done" =>
    /\ (result.kind = "raise" /\ result.exc = "KeyExchangeError") => KeyExchangeFailure
    /\ (~outcomes[1].ok /\ ~KeyExchangeFailure) =>
         /\ result = Raise(outcomes[1].exc.cls, outcomes[1].exc.text)
         /\ result.exc # "KeyExchangeError"

C19_Witness ==
  /\ pc = "kx_done"
  /\ ~outcomes[1].ok
  /\ outcomes[1].exc.cls = "ClientConnectorCertificateError"
  /\ outcomes[1].exc.text = Str(<<"s","e","l","f"," ","s","i","g","n","e","d"," ","c","e","r","t","i","f","i","c","a","t","e">>)
  /\ ~KeyExchangeFailure
  /\ result = Raise("ClientConnectorCertificateError", Str(<<"s","e","l","f"," ","s","i","g","n","e","d"," ","c","e","r","t","i","f","i","c","a","t","e">>))

\* a name with the expected common name and the expected organisation
IsCertumRoot(name) ==
  /\ name.CN = Str(<<"C","e","r","t","u","m"," ","T","r","u","s","t","e","d"," ","N","e","t","w","o","r","k"," ","C","A">>)
  /\ name.O = Str(<<"U","n","i","z","e","t","o"," ","T","e","c","h","n","o","l","o","g","i","e","s"," ","S",".","A",".">>)

\* a chain was fetched and is not empty
ChainWasFetched ==
  handshake.error = NoError /\ handshake.chain # <<>>

\* the fetched chain holds the expected root as a subject, or the last
\* certificate names it as its issuer
ChainLeadsToCertum ==
  /\ ChainWasFetched
  /\ \/ \E i \in 1..Len(handshake.chain) : IsCertumRoot(handshake.chain[i].subject)
     \/ IsCertumRoot(handshake.chain[Len(handshake.chain)].issuer)

SecurityErrors ==
  {"CertificateError", "KeyExchangeError", "HTTPError"}

\* the HTTPS GET of the call was made and failed
HttpsAttemptFailed ==
  outcomes # <<>> /\ ~outcomes[1].ok

\* C28: the call returns True only when the HTTPS GET itself succeeded and no
\* URL of the response used plain HTTP; once the HTTPS GET has failed the call
\* never returns True and ends raising CertificateError, KeyExchangeError or
\* HTTPError, so the 'return True' after the fallback block is never taken.
C28_TrueOnlyAfterHttpsSuccess ==
  /\ result = ReturnTrue =>
       /\ pc = "done"
       /\ outcomes # <<>> /\ outcomes[1].ok
       /\ ~UsedPlainHttp(outcomes[1].response)
  /\ HttpsAttemptFailed => result.kind # "return"
  /\ (HttpsAttemptFailed /\ pc = "done") =>
       (result.kind = "raise" /\ result.exc \in SecurityErrors)

C28_Witness ==
  /\ pc = "done"
  /\ HttpsAttemptFailed
  /\ outcomes[1].exc.cls \in TLSClasses
  /\ outcomes[1].exc.text = Str(<<"K","e","y"," ","E","x","c","h","a","n","g","e"," ","f","a","i","l","e","d">>)
  /\ result.kind = "raise"
  /\ result.exc = "KeyExchangeError"
  /\ Contains(result.message, Str(<<"h","a","s"," ","a"," ","k","e","y"," ","e","x","c","h","a","n","g","e"," ","r","e","l","a","t","e","d"," ","e","r","r","o","r">>))
(***************************************************************************)
(* Claims about the Verifier (crypto.py)                                   *)
(***************************************************************************)
\* the response in flight answers a verification request
Verified ==
  response.op = "verify"

\* the ':'-separated fields of the token data the presented token decodes to
PresentedParts ==
  Split(TokenData(response.token), ColonChar)

\* the fifth of five fields is the keyed digest, under master secret plus
\* pepper, of the first four joined by ':'
SignatureIsGenuine(parts) ==
  /\ Len(parts) = 5
  /\ parts[5] = HmacHexDigest(master_secret \o PEPPER,
                              Utf8Encode(Join(SubSeq(parts, 1, 4), Colon)))

\* 5 fields, integer timestamp and TTL
WellFormed(parts) ==
  /\ Len(parts) = 5
  /\ ParseInt(parts[2]).ok
  /\ ParseInt(parts[3]).ok

\* C6: verify_token never answers valid=true for a token whose signature
\* field is not the keyed digest of its own domain:timestamp:ttl:salt fields;
\* a forged token, and a genuine token with a character or a field changed,
\* is rejected at every verification time.
C6_OnlyGenuineSignaturesVerify ==
  Verified =>
    /\ response.valid => SignatureIsGenuine(PresentedParts)
    /\ response.how \in {"flip", "replace", "forge"} => ~response.valid

\* a genuine, unexpired token whose salt was replaced is turned down for its
\* signature
C6_Witness ==
  /\ Verified
  /\ response.how = "replace"
  /\ response.field = 4
  /\ ~response.valid
  /\ response.reason = S_Invalid_signature_token_may_be_forged

\* C7: round trip: verify_token applied in the second of issue to what
\* generate_token returned answers valid=true and the normalized domain.
\* The code breaks this for a domain that holds a ':' (host:port).
C7_RoundTrip ==
  (Verified /\ response.how = "genuine" /\ response.at = issued.at) =>
    /\ response.valid
    /\ response.domain = _normalize_domain(issued.domain)

\* C8: a genuinely signed token is accepted at every time up to and including
\* issuedAt + ttl and rejected with a reason containing 'expired' at every
\* later time.  The code breaks this for the tokens of C7, which are neither
\* accepted nor reported as expired.
C8_Expiry ==
  (Verified /\ response.how = "genuine") =>
    IF response.at <= issued.at + issued.ttl_seconds
      THEN response.valid
      ELSE ~response.valid /\ Contains(response.reason, S_expired)

\* C9: the expiry check precedes the signature check: a well-formed token
\* with now > timestamp + ttl is reported as expired, whatever its signature.
C9_ExpiryBeforeSignature ==
  \A parts \in {IF Verified THEN PresentedParts ELSE <<>>} :
  ( /\ Verified
    /\ WellFormed(parts)
    /\ response.at > ParseInt(parts[2]).value + ParseInt(parts[3]).value ) =>
    /\ ~response.valid
    /\ StartsWith(response.reason, S_Token_expired)
    /\ response.reason # S_Invalid_signature_token_may_be_forged

\* an expired token whose signature field was damaged is reported as expired
C9_Witness ==
  /\ Verified
  /\ response.how = "flip"
  /\ response.field = 5
  /\ WellFormed(PresentedParts)
  /\ ~SignatureIsGenuine(PresentedParts)
  /\ StartsWith(response.reason, S_Token_expired)

\* the issued token is one verify_token accepts at the time of the response
IssuedIsValid ==
  verify_token(issued.token, response.at).valid

\* one character of the timestamp, TTL or signature field of a valid token
\* was changed and the result presented
FlipInSignedField ==
  /\ Verified
  /\ response.how = "flip"
  /\ response.field \in {2, 3, 5}
  /\ IssuedIsValid

\* C10 as stated: such a change makes verify_token fail with the
\* signature-mismatch reason.
C10_AsStated ==
  FlipInSignedField =>
    /\ ~response.valid
    /\ response.reason = S_Invalid_signature_token_may_be_forged

\* C10: changing one character of the signature, timestamp or TTL field of a
\* valid token makes verify_token answer valid=false (it neither raises nor
\* accepts); the reason is the signature mismatch when the changed token
\* still has 5 fields, an integer timestamp and TTL, is not expired and has an
\* ASCII signature, and otherwise names the first of these that fails.
C10_TamperSensitivity ==
  FlipInSignedField =>
    /\ ~response.valid
    /\ \A parts \in {PresentedParts} :
       IF Len(parts) # 5
         THEN response.reason = S_Invalid_token_format
       ELSE IF ~WellFormed(parts)
         THEN response.reason = S_Invalid_timestamp_or_TTL
       ELSE IF response.at > ParseInt(parts[2]).value + ParseInt(parts[3]).value
         THEN StartsWith(response.reason, S_Token_expired)
       ELSE IF ~IsASCII(parts[5])
         THEN StartsWith(response.reason, S_Token_verification_error)
       ELSE response.reason = S_Invalid_signature_token_may_be_forged

\* a digit of the TTL of a valid token was changed and the signature no
\* longer matches
C10_Witness ==
  /\ FlipInSignedField
  /\ response.field = 3
  /\ response.reason = S_Invalid_signature_token_may_be_forged

\* C11 as stated: every token whose signature does not match gets an empty
\* domain back.
C11_AsStated ==
  (Verified /\ ~SignatureIsGenuine(PresentedParts)) => response.domain = <<>>

\* C11: a non-empty domain is returned only on full success or on the expiry
\* path, and every token whose signature does not match gets an empty domain
\* back unless it is reported as expired (expiry is decided before the
\* signature is looked at, and answers with the domain field of the token).
C11_NoDomainOnMismatch ==
  Verified =>
    /\ response.domain # <<>> =>
         \/ response.valid /\ response.reason = S_Token_verified_successfully
         \/ ~response.valid /\ StartsWith(response.reason, S_Token_expired)
    /\ (response.domain # <<>> /\ ~StartsWith(response.reason, S_Token_expired)) =>
         SignatureIsGenuine(PresentedParts)

\* a token of five fields with a non-empty domain field and a wrong signature
\* is turned down for the signature, and no domain is returned
C11_Witness ==
  /\ Verified
  /\ Len(PresentedParts) = 5
  /\ PresentedParts[1] # <<>>
  /\ ~SignatureIsGenuine(PresentedParts)
  /\ response.reason = S_Invalid_signature_token_may_be_forged
  /\ response.domain = <<>>

\* base64.b64decode of the presented token raises
Base64Fails ==
  ~B64Decode(Utf8Encode(response.token)).ok

\* C12: verify_token never raises: every input string, malformed ones
\* included, is answered with a (valid, reason, domain) triple; valid=false on
\* a base64 decode failure, on a field count other than 5 (reason 'Invalid
\* token format') and on a non-integer timestamp or TTL (reason 'Invalid
\* timestamp or TTL'), two different reasons.
C12_FailsClosed ==
  Verified =>
    \A decoded \in {B64Decode(Utf8Encode(response.token))} :
    \A token_data \in {Utf8Decode(decoded.bytes)} :
    \A parts \in {Split(token_data.s, ColonChar)} :
      /\ response.valid \in BOOLEAN
      /\ ~decoded.ok =>
           /\ ~response.valid
           /\ StartsWith(response.reason, S_Token_verification_error)
      /\ (decoded.ok /\ token_data.ok /\ Len(parts) # 5) =>
           /\ ~response.valid
           /\ response.reason = S_Invalid_token_format
      /\ (decoded.ok /\ token_data.ok /\ Len(parts) = 5 /\ ~WellFormed(parts)) =>
           /\ ~response.valid
           /\ response.reason = S_Invalid_timestamp_or_TTL
      /\ S_Invalid_token_format # S_Invalid_timestamp_or_TTL

\* a string that is no base64 is answered with valid=false
C12_Witness ==
  /\ Verified
  /\ response.how = "malformed"
  /\ Base64Fails
  /\ ~response.valid
  /\ StartsWith(response.reason, S_Token_verification_error)

\* C13: tokens are not single-use: every verification of a genuine token at a
\* time now <= issuedAt + ttl, however many came before it, answers
\* valid=true, and the answer is the one verify_token gives for that token
\* and time.  The code breaks the first part for the tokens of C7, which are
\* never accepted.
C13_Reuse ==
  (Verified /\ response.how = "genuine"
     /\ response.at <= issued.at + issued.ttl_seconds) =>
    /\ response.valid
    /\ \A verdict \in {verify_token(response.token, response.at)} :
         /\ response.valid = verdict.valid
         /\ response.reason = verdict.reason
         /\ response.domain = verdict.domain

\* the protocol prefixes a domain may be given with
SchemePrefixes ==
  { S_http_scheme, S_https_scheme }

\* d without one leading protocol prefix, in whatever case the prefix is
\* written, and otherwise unchanged
Unprefixed(d) ==
  IF \E p \in SchemePrefixes : Len(d) >= Len(p) /\ Lower(SubSeq(d, 1, Len(p))) = p
    THEN LET p == CHOOSE q \in SchemePrefixes :
                    Len(d) >= Len(q) /\ Lower(SubSeq(d, 1, Len(q))) = q
         IN SubSeq(d, Len(p) + 1, Len(d))
    ELSE d

\* C14: generate_token strips one leading http:// or https:// (in any case)
\* from the domain and nothing else: the token generated for 'https://X' is
\* the token generated for 'X', it embeds X as written, and a verification of
\* it that returns a domain returns X.
C14_Normalization ==
  /\ response.op = "generate" =>
       \A token_data \in {TokenData(response.token)} :
         /\ StartsWith(token_data,
                       Unprefixed(issued.domain) \o Colon \o IntToStr(issued.at) \o Colon)
         /\ \E salt \in Salts :
              response.token =
                generate_token(Unprefixed(issued.domain), issued.ttl_seconds, salt, issued.at)
  /\ (Verified /\ response.how = "genuine") =>
       /\ response.domain \in {<<>>, Unprefixed(issued.domain)}
       /\ response.valid => response.domain = Unprefixed(issued.domain)

\* a token was generated for a domain written with a protocol prefix and
\* verifies to the domain without it
C14_Witness ==
  /\ Verified
  /\ response.how = "genuine"
  /\ response.valid
  /\ issued.domain = S_https_b_pl
  /\ response.domain = S_b_pl

\* C21: whenever TCP connect and TLS handshake together took longer than the
\* timeout, the fetch was aborted and reports a timeout failure.
C21_TotalTimeout ==
  (pc = "fetch_done" /\ current_time - called_at > fetch_timeout) =>
    result = Raise("CertificateError",
                   Str(<<"C","o","n","n","e","c","t","i","o","n"," ","t","i","m","e","o","u","t"," ","w","h","i","l","e"," ","r","e","t","r","i","e","v","i","n","g"," ","c","e","r","t","i","f","i","c","a","t","e"," ","c","h","a","i","n"," ","f","o","r"," ">>) \o domain)

\* C22: on every exit path of the chain fetch (success, TLS error, socket
\* error, timeout, empty chain, failure before the connection object exists)
\* the socket is closed when the function returns.
C22_SocketClosed ==
  pc = "fetch_done" => sock = "closed"

C22_Witness ==
  /\ pc = "fetch_done"
  /\ ~connection
  /\ handshake.error.cls = "socket.error"
  /\ sock = "closed"
  /\ result.kind = "raise"


\* check_domain_security succeeded for the requested domain
SecurityCheckPassed ==
  /\ Len(outcomes) = 1
  /\ outcomes[1].ok
  /\ requests = <<https_url(domain)>>
  /\ ~UsedPlainHttp(outcomes[1].response)

\* the endpoint answered a request that was served with domain checks enabled
CheckedReply ==
  ep_pc = "responded" /\ enable_domain_checks

\* C23: with domain checks enabled a token is minted only after
\* check_domain_security, then verify_domain, then check_ca_chain succeeded
\* for the requested domain; DomainError is answered with 403,
\* CertificateError, KeyExchangeError and HTTPError with 400, and no token is
\* generated when a check failed.
C23_TokenGatedByChecks ==
  /\ (enable_domain_checks /\ issued # NoToken) =>
       /\ SecurityCheckPassed
       /\ domain \in _GOV_DOMAINS
       /\ ChainLeadsToCertum
       /\ issued.domain = domain
       /\ http_reply.status_code = 201
  /\ (enable_domain_checks /\ handshake # NoHandshake) =>
       (SecurityCheckPassed /\ domain \in _GOV_DOMAINS)
  /\ (CheckedReply /\ result.kind = "raise") =>
       /\ issued = NoToken
       /\ result.exc \in {"DomainError", "CertificateError", "KeyExchangeError", "HTTPError"}
       /\ http_reply.status_code = IF result.exc = "DomainError" THEN 403 ELSE 400
       /\ Contains(http_reply.detail, result.message)
  /\ (CheckedReply /\ result.kind # "raise") => issued # NoToken

C23_Witness ==
  /\ CheckedReply
  /\ SecurityCheckPassed
  /\ handshake.error = NoError
  /\ ~ChainLeadsToCertum
  /\ result.exc = "CertificateError"
  /\ http_reply.status_code = 400
  /\ issued = NoToken

\* the task whose pair ends up in the dictionary for its domain: the last one
\* listed for that domain
Decides(i) ==
  \A j \in 1..Len(tasks) : tasks[j].domain = tasks[i].domain => j <= i

\* C24: check_key_exchange_group returns only after all its checks have
\* ended, with an entry for every listed domain: True when the domain's check
\* passed and a non-empty error description when it failed in any way; an
\* entry depends on the check of its own domain only (with a domain listed
\* more than once, on the last check listed for it).
C24_BatchTolerant ==
  pc = "group_done" =>
    /\ \A i \in 1..Len(tasks) : tasks[i].pc = "done"
    /\ DOMAIN results = {tasks[i].domain : i \in 1..Len(tasks)}
    /\ \A i \in 1..Len(tasks) :
         Decides(i) =>
           \A entry \in {results[tasks[i].domain]} :
             IF tasks[i].outcome.ok
               THEN entry = PyTrue
               ELSE /\ entry.type = "str"
                    /\ entry.str # <<>>

C24_Witness ==
  /\ pc = "group_done"
  /\ Len(tasks) = 3
  /\ tasks[1].domain # tasks[2].domain
  /\ tasks[1].outcome.ok
  /\ ~tasks[2].outcome.ok
  /\ tasks[2].outcome.exc.cls = "TimeoutError"
  /\ results[tasks[1].domain] = PyTrue
  /\ results[tasks[2].domain].type = "str"

\* C25: an attempt of the refresher that ended, with a token or with any
\* caught exception, is followed by a sleep of exactly 10 seconds, whatever
\* came before, and the next attempt starts when that sleep is over; the task
\* leaves its loop only when it is cancelled; the secret file changes only in
\* a step that ends an attempt with a token, and then holds that token.
C25_FixedDelayRetry ==
  [][ /\ (task_pc = "requesting" /\ task_pc' = "sleeping") =>
           wake_at' = current_time' + 10
      /\ (task_pc = "sleeping" /\ task_pc' = "requesting") =>
           current_time = wake_at
      /\ (task_pc \in {"requesting", "sleeping"}
            /\ task_pc' \notin {"requesting", "sleeping"}) =>
           cancel_requested
      /\ (secret_file' # secret_file) =>
           /\ task_pc = "requesting"
           /\ last_outcome'.kind = "token"
           /\ secret_file' = last_outcome'.token
    ]_vars

C25_Witness ==
  /\ task_pc = "requesting"
  /\ attempts = 3
  /\ last_outcome.kind = "HTTPStatusError"
  /\ current_time = wake_at
  /\ current_time = StartTime + 20
  /\ secret_file # <<>>

\* C30: on shutdown the connector is closed only after the cancelled task has
\* stopped, so the task starts no request on a closed connector, and a
\* cancellation that was delivered to the task always stops it.
C30_ShutdownOrder ==
  /\ bank_connector = "closed" => task_pc = "cancelled"
  /\ lifespan_pc \in {"closing", "stopped"} => task_pc = "cancelled"
  /\ (lifespan_pc = "awaiting_task" /\ ~cancel_requested) => task_pc = "cancelled"

C30_Witness ==
  /\ lifespan_pc = "stopped"
  /\ bank_connector = "closed"
  /\ task_pc = "cancelled"
  /\ attempts = 2
  /\ last_outcome.kind = "ConnectError"
  /\ current_time = StartTime + 10

\* httpx.TimeoutException with its subclasses, and httpx.ConnectError
IsTimeoutOrConnectionError(e) ==
  e.kind \in {"TimeoutException", "ConnectTimeout", "ReadTimeout", "ConnectError"}

\* C26: one call of WeryfikatorConnector.verify_token makes at most 3
\* attempts; an attempt is followed by another only if it raised a timeout or
\* connection error, never after an HTTP status error; when the third attempt
\* fails too, its error is raised to the endpoint, which answers 503.
C26_BoundedRetry ==
  /\ attempt_number <= 3
  /\ Len(raised) <= attempt_number
  /\ \A i \in 1..Len(raised) :
       i < attempt_number => IsTimeoutOrConnectionError(raised[i])
  /\ (conn_pc \in {"ended", "responded"} /\ Len(raised) = 3) =>
       conn_result = raised[3]
  /\ (conn_pc = "responded" /\ Len(raised) = 3
        /\ IsTimeoutOrConnectionError(raised[3])) =>
       mob_reply.status_code = 503

C26_Witness ==
  /\ conn_pc = "responded"
  /\ Len(raised) = 3
  /\ raised[1].kind = "TimeoutException"
  /\ raised[2].kind = "ConnectError"
  /\ raised[3].kind = "ReadTimeout"
  /\ conn_result = raised[3]
  /\ mob_reply.status_code = 503

\* connectors created and not closed
Unclosed ==
  {i \in 1..Len(connectors) : connectors[i].state # "closed"}

\* no close_connector call returned between the i-th and the j-th call
NoCloseBetween(i, j) ==
  \A k \in (i + 1)..(j - 1) : calls[k].op # "close"

\* C27: with get_connector and close_connector called one after another, at
\* most one connector is un-closed at any time; the get_connector calls with no
\* close_connector between them return one instance whatever base_url they
\* pass; the first get_connector after a close_connector returns an instance
\* no earlier call returned, and it is open.
C27_SinglePool ==
  /\ Cardinality(Unclosed) <= 1
  /\ \A i, j \in 1..Len(calls) :
       (i < j /\ calls[i].op = "get" /\ calls[j].op = "get" /\ NoCloseBetween(i, j)) =>
         calls[i].instance = calls[j].instance
  /\ \A j \in 2..Len(calls) :
       (calls[j - 1].op = "close" /\ calls[j].op = "get") =>
         /\ \A i \in 1..(j - 1) : calls[i].instance # calls[j].instance
         /\ calls[j].state = "open"

C27_Witness ==
  /\ Len(calls) = 4
  /\ calls[1].op = "get" /\ calls[2].op = "get"
  /\ calls[1].base_url # calls[2].base_url
  /\ calls[1].instance = calls[2].instance
  /\ calls[3].op = "close" /\ calls[3].instance = calls[1].instance
  /\ calls[4].op = "get" /\ calls[4].instance # calls[1].instance
  /\ Cardinality(Unclosed) = 1

\* C29: under every interleaving, the connector get_connector returns has
\* not had close() started on it at the time of the return.
C29_NeverHandsOutClosing ==
  \A i \in 1..Len(calls) :
    calls[i].op = "get" => calls[i].state = "open"

====
